---- MODULE Spec2Model ----
(***************************************************************************)
(* ARCcrop tile tooling: the tile fetcher and its semaphore                *)
(* (generate_overview_tiles.py, generate_worldcereal_croptype.py), the     *)
(* global/per-host gate of check_sources.py, the MBTiles store and the two *)
(* tile-generation workflows.                                              *)
(***************************************************************************)
EXTENDS Integers, Sequences, FiniteSets, TLC

VARIABLES
    concurrency,   \* the run's concurrency limit (generate_source / generate argument)
    semaphore,     \* free permits of asyncio.Semaphore(concurrency)
    ftask,         \* the fetch_tile coroutines of one gather: [pc, attempt, result]
    fhist,         \* history: per coroutine, what was requested and what the server sent
    arrival,       \* history: the coroutines of the gather in the order in which they finished
    global_sem,    \* check_sources: free permits of asyncio.Semaphore(MAX_GLOBAL_CONCURRENT)
    _host_sems,    \* check_sources: host name -> free permits of that host's semaphore
    gtask,         \* check_sources: the gathered check coroutines
    started        \* check_sources: how many of them have run up to their first await

fetchVars == <<concurrency, semaphore, ftask, fhist, arrival>>
gateVars == <<global_sem, _host_sems, gtask, started>>

VARIABLES
    workflow,           \* "overview" (generate_source) or "multi" (generate)
    source_id,          \* generate_source argument
    max_zoom_override,  \* generate_source argument: {} is None, {m} is the integer m
    min_zoom,           \* generate argument
    max_zoom,           \* the max zoom in force (generate argument / line 414)
    server,             \* what the WMS server answers: URL class -> answers per attempt
    pc,                 \* where the workflow is: start, level, finalize, done, failed
    z,                  \* zoom level of the for loop
    level_done,         \* tile keys of this level already flushed in a batch
    inflight,           \* the tile keys of the gather being awaited (stepwise runs)
    saved,
    skipped,
    tiles,              \* table tiles as the connection sees it
    metadata,           \* table metadata as the connection sees it
    disk,               \* what is committed to the file at the output path
    layer_list,         \* the list LAYERS in the order it is written (one tile alone)
    images,             \* process_tile's dict layer_images, (id, image) in insertion order
    png_data,           \* what process_tile returned for the tile
    tile_bytes,         \* what fetch_tile returned for the tile (one overview tile alone)
    bulk,               \* TRUE when generate_all drives the runs
    attempts,           \* history of generate_all: the sources attempted, in order
    path_before,        \* history: the file found at the output path when the run started
    thist,              \* history: per tile key, what its fetch returned and how it was counted
    log                 \* history: the upserts made through the store, in order

\* the arguments and the result of a function of the scripts applied alone
VARIABLES
    geo_bounds,         \* generate_source's bounds (west, south, east, north), in tenths of a degree
    geo_zoom,           \* the zoom level z of the for loop
    tile_range,         \* x_min, x_max, y_min, y_max of lines 442-445, or the error raised
    rt_tile,            \* a tile (z, c, r)
    rt_point,           \* the point of its box mapped back: "corner" (north-west) or "centre"
    rt_bbox,            \* what tile_bbox_4326 returned for the tile
    rt_back,            \* the tile lon_to_tile_x and lat_to_tile_y give for the point
    url_src,            \* build_wms_url: the registry entry src
    url_tile,           \* build_wms_url: z, x, y
    url_year,           \* build_wms_url: year ({} is None)
    wms_url             \* what build_wms_url returned

\* check_sources.run_all_checks applied to a registry
VARIABLES
    sources,            \* registry["sources"] in the order of the dict: the entries (sid, src)
    source_filter,      \* run_all_checks argument: {} is None, {s} is the id s
    non_wms,            \* registry["non_wms_checks"]: the keys, in the order of the dict
    check_pc,           \* where run_all_checks is: idle, start, gather, done
    tasks,              \* the list tasks, each coroutine with its state and what it returned
    requests,           \* history: the HTTP requests made, in order: the task and the base URL
    checked             \* the list results that run_all_checks returns

rangeVars == <<geo_bounds, geo_zoom, tile_range>>
tripVars == <<rt_tile, rt_point, rt_bbox, rt_back>>
urlVars == <<url_src, url_tile, url_year, wms_url>>
checkVars == <<sources, source_filter, non_wms, check_pc, tasks, requests, checked>>
unitVars == <<rangeVars, tripVars, urlVars, checkVars>>

runVars == <<workflow, source_id, max_zoom_override, min_zoom, max_zoom, server,
             pc, z, level_done, inflight, saved, skipped, bulk, attempts, thist,
             layer_list, images, png_data, tile_bytes, path_before, unitVars>>
storeVars == <<tiles, metadata, disk, log>>

(***************************************************************************)
(* Bounds of the model.                                                    *)
(***************************************************************************)
NumFetch == 3          \* fetch_tile coroutines gathered together
MaxConcurrency == 2    \* largest concurrency limit tried
NumGate == 7           \* check coroutines gathered by run_all_checks
ProbeYears == 2        \* years a probe_url source probes

(***************************************************************************)
(* Program constants.                                                      *)
(***************************************************************************)
retries == 2           \* fetch_tile(..., retries=2)
MIN_BYTES == 100       \* len(data) > 100
TILE_SIZE == 256
MAX_HOST_CONCURRENT == 2
MAX_GLOBAL_CONCURRENT == 6

(***************************************************************************)
(* Images and bodies.  A decoded RGBA image of TILE_SIZE x TILE_SIZE       *)
(* pixels is kept sparsely: px lists the pixels (row-major index) that     *)
(* differ from the background pixel bg.  A body is what a server sends:    *)
(* len bytes that either are the PNG of an image or do not decode.         *)
(***************************************************************************)
NumPixels == TILE_SIZE * TILE_SIZE

None == [kind |-> "None"]

\* no function is applied alone
RangeIdle == geo_bounds = << >> /\ geo_zoom = 0 /\ tile_range = None
TripIdle == rt_tile = << >> /\ rt_point = "none" /\ rt_bbox = None /\ rt_back = None
UrlIdle == url_src = << >> /\ url_tile = << >> /\ url_year = {} /\ wms_url = None
CheckIdle ==
    /\ sources = << >> /\ source_filter = {} /\ non_wms = << >> /\ check_pc = "idle"
    /\ tasks = << >> /\ requests = << >> /\ checked = << >>
UnitIdle == RangeIdle /\ TripIdle /\ UrlIdle /\ CheckIdle

PixelAt(img, i) == IF i \in DOMAIN img.px THEN img.px[i] ELSE img.bg

Uniform(p) == [px |-> [i \in {} |-> p], bg |-> p]

ImgOpaque == Uniform(<<200, 30, 30, 255>>)
ImgClear  == Uniform(<<0, 0, 0, 0>>)

PngBody(img, n) == [kind |-> "png", len |-> n, img |-> img]
JunkBody(n)     == [kind |-> "junk", len |-> n]

len(data) == data.len

(***************************************************************************)
(* What one HTTP attempt can end with: a response (status, body) or an     *)
(* exception raised by session.get / resp.read.                            *)
(***************************************************************************)
Response(status, body) == [exc |-> "none", status |-> status, body |-> body]
Raises(e)              == [exc |-> e, status |-> 0, body |-> None]

FetchBodies == {PngBody(ImgOpaque, MIN_BYTES + 1), PngBody(ImgClear, 5000), JunkBody(MIN_BYTES)}

Outcomes ==
    {Response(200, b) : b \in FetchBodies}
      \cup {Response(404, PngBody(ImgOpaque, MIN_BYTES + 1))}
      \cup {Raises(e) : e \in {"ClientError", "TimeoutError", "Other"}}

(***************************************************************************)
(* fetch_tile, one attempt.                                                *)
(***************************************************************************)
\* range(retries + 1): the attempts are 0 .. range_end - 1
range_end_off == retries + 2
range_end == retries + 1

\* if resp.status == 200: data = await resp.read(); if len(data) > 100: return data
IsData_ge(o) == o.exc = "none" /\ o.status = 200 /\ len(o.body) >= MIN_BYTES
IsData(o) == o.exc = "none" /\ o.status = 200 /\ len(o.body) > MIN_BYTES

\* except (aiohttp.ClientError, asyncio.TimeoutError)
Caught(e) == e \in {"ClientError", "TimeoutError"}

\* Where control goes after the attempt's outcome o:
\*   "return" (with data), "sleep" (backoff inside the with-block),
\*   "next" (leave the with-block, go on with the for loop), "raise".
AfterAttempt_sleep_on_refusal(attempt, o) ==
    IF IsData(o) THEN "return"
    ELSE IF attempt < retries THEN "sleep"
    ELSE "next"
AfterAttempt_sleep_always(attempt, o) ==
    IF IsData(o) THEN "return"
    ELSE IF o.exc = "none" THEN "next"
    ELSE IF Caught(o.exc) THEN "sleep"
    ELSE "raise"
AfterAttempt(attempt, o) ==
    IF IsData(o) THEN "return"
    ELSE IF o.exc = "none" THEN "next"
    ELSE IF Caught(o.exc) THEN (IF attempt < retries THEN "sleep" ELSE "next")
    ELSE "raise"

\* async with semaphore: acquire blocks while no permit is free
CanAcquire_always(s) == TRUE
CanAcquire(s) == s > 0

\* async with semaphore: __aexit__ releases on every way out of the block
Release_unless_raise(s, how) == IF how = "raise" THEN s ELSE s + 1
Release(s, how) == s + 1

\* await asyncio.sleep(1) sits inside "async with semaphore" (line 405): the
\* free permits are what they were while the coroutine sleeps
WhileAsleep_released(s) == s + 1
WhileAsleep(s) == s

\* The for loop after the with-block was left at attempt a: the next attempt,
\* or the end of the loop and "return None".
LoopOn(t, a) ==
    IF a + 1 < range_end
    THEN [pc |-> "acquire", attempt |-> a + 1, result |-> None]
    ELSE [pc |-> "done", attempt |-> a, result |-> None]

FetchTasks == DOMAIN ftask

\* History only: the first response with status 200 and more than 100 bytes that
\* the server sent to a coroutine (issued counts its session.get calls, refused
\* tells whether its last attempt ended with a response that carried no data).
Seen(h, o) ==
    IF h.dataAt = 0 /\ o.exc = "none" /\ o.status = 200 /\ o.body.len > 100
    THEN [h EXCEPT !.dataAt = h.issued, !.dataBody = o.body, !.refused = FALSE]
    ELSE [h EXCEPT !.refused = (o.exc = "none")]

Holding(t) == ftask[t].pc \in {"request", "sleep"}

\* History only: coroutine t is appended when it has returned or raised
Arrived(arr, t, task) == IF task.pc \in {"done", "raised"} THEN Append(arr, t) ELSE arr

\* async with semaphore: (line 394) and session.get(url, timeout=30 s) (line 396)
Acquire(t) ==
    /\ ftask[t].pc = "acquire"
    /\ CanAcquire(semaphore)
    /\ semaphore' = semaphore - 1
    /\ ftask' = [ftask EXCEPT ![t].pc = "request"]
    /\ fhist' = [fhist EXCEPT ![t].issued = @ + 1]
    /\ UNCHANGED <<concurrency, arrival, gateVars, runVars, storeVars>>

\* the attempt ends with outcome o
Respond(t, o) ==
    /\ ftask[t].pc = "request"
    /\ LET a == ftask[t].attempt
           how == AfterAttempt(a, o)
       IN /\ fhist' = [fhist EXCEPT ![t] = Seen(fhist[t], o)]
          /\ CASE how = "return" ->
                    /\ ftask' = [ftask EXCEPT ![t] = [pc |-> "done", attempt |-> a, result |-> o.body]]
                    /\ semaphore' = Release(semaphore, how)
               [] how = "sleep" ->
                    /\ ftask' = [ftask EXCEPT ![t].pc = "sleep"]
                    /\ semaphore' = WhileAsleep(semaphore)
               [] how = "next" ->
                    /\ ftask' = [ftask EXCEPT ![t] = LoopOn(t, a)]
                    /\ semaphore' = Release(semaphore, how)
               [] how = "raise" ->
                    /\ ftask' = [ftask EXCEPT ![t].pc = "raised"]
                    /\ semaphore' = Release(semaphore, how)
    /\ arrival' = Arrived(arrival, t, ftask'[t])
    /\ UNCHANGED <<concurrency, gateVars, runVars, storeVars>>

\* await asyncio.sleep(1) is over: the with-block is left, the loop goes on
Wake(t) ==
    /\ ftask[t].pc = "sleep"
    /\ ftask' = [ftask EXCEPT ![t] = LoopOn(t, ftask[t].attempt)]
    /\ semaphore' = Release(semaphore, "next")
    /\ arrival' = Arrived(arrival, t, ftask'[t])
    /\ UNCHANGED <<concurrency, fhist, gateVars, runVars, storeVars>>

\* Once a coroutine has raised, gather has raised and the run is torn down:
\* the coroutines still pending are cancelled at their await.
Cancel(t) ==
    /\ \E u \in FetchTasks : ftask[u].pc = "raised"
    /\ ftask[t].pc \in {"acquire", "request", "sleep"}
    /\ ftask' = [ftask EXCEPT ![t].pc = "raised"]
    /\ semaphore' = IF Holding(t) THEN Release(semaphore, "raise") ELSE semaphore
    /\ arrival' = Arrived(arrival, t, ftask'[t])
    /\ UNCHANGED <<concurrency, fhist, gateVars, runVars, storeVars>>

FetchInit ==
    /\ concurrency \in 1..MaxConcurrency
    /\ semaphore = concurrency
    /\ ftask = [t \in 1..NumFetch |-> [pc |-> "acquire", attempt |-> 0, result |-> None]]
    /\ fhist = [t \in 1..NumFetch |-> [issued |-> 0, refused |-> FALSE, dataAt |-> 0, dataBody |-> None]]
    /\ arrival = << >>

\* no fetch_tile coroutine exists
FetchIdle ==
    /\ concurrency = 1
    /\ semaphore = 1
    /\ ftask = << >>
    /\ fhist = << >>
    /\ arrival = << >>

NextFetch ==
    \/ \E t \in FetchTasks : Acquire(t)
    \/ \E t \in FetchTasks, o \in Outcomes : Respond(t, o)
    \/ \E t \in FetchTasks : Wake(t)
    \/ \E t \in FetchTasks : Cancel(t)

(***************************************************************************)
(* check_sources.py: the global and per-host semaphores.  A URL is kept as *)
(* its host name ("" for an empty or host-less URL).                       *)
(***************************************************************************)
host_from_url(url) == IF url = "" THEN "unknown" ELSE url

\* get_host_sem: the registry after the call (the entry is made on first use)
get_host_sem_fresh(sems, host) ==
    [h \in DOMAIN sems \cup {host} |-> IF h = host THEN MAX_HOST_CONCURRENT ELSE sems[h]]
get_host_sem(sems, host) ==
    IF host \in DOMAIN sems THEN sems ELSE sems @@ (host :> MAX_HOST_CONCURRENT)

\* A registry source as far as the gate is concerned.
FixedSource(base) == [method |-> "fixed", wms_base_url |-> base, probe_url_template |-> ""]
ProbeSource(base, template) ==
    [method |-> "probe_url", wms_base_url |-> base, probe_url_template |-> template]

\* check_fixed_source: url = build_getcap_url(base_url, ...); host = host_from_url(base_url)
\* check_probe_url_source: url = template.replace("{year}", ...);
\*                         host = host_from_url(source["wms_base_url"] or template)
SemHost(src) ==
    IF src.method = "probe_url"
    THEN host_from_url(IF src.wms_base_url # "" THEN src.wms_base_url ELSE src.probe_url_template)
    ELSE host_from_url(src.wms_base_url)

ReqHost(src) ==
    IF src.method = "probe_url" THEN host_from_url(src.probe_url_template)
    ELSE host_from_url(src.wms_base_url)

\* the requests the check makes: none when it returns SKIPPED
Requests(src) ==
    IF src.method = "probe_url" THEN (IF src.probe_url_template = "" THEN 0 ELSE ProbeYears)
    ELSE (IF src.wms_base_url = "" THEN 0 ELSE 1)

GateTasks == DOMAIN gtask

\* async with global_sem, host_sem: entered with g global permits free and the
\* host registry hs.  A free semaphore is taken without yielding, so the
\* coroutine stops at the first one that blocks, or issues session.get(url).
EnterGate(h, g, hs) ==
    IF ~CanAcquire(g) THEN [pc |-> "global", global |-> g, hosts |-> hs]
    ELSE IF ~CanAcquire(hs[h]) THEN [pc |-> "host", global |-> g - 1, hosts |-> hs]
    ELSE [pc |-> "request", global |-> g - 1, hosts |-> [hs EXCEPT ![h] = @ - 1]]

\* The coroutine runs up to its first await (gather starts them in order):
\* the early SKIPPED return, or host_sem = get_host_sem(host) and the with-block.
Start(t) ==
    /\ t = started + 1
    /\ t \in GateTasks
    /\ started' = t
    /\ IF Requests(gtask[t].src) = 0
       THEN /\ gtask' = [gtask EXCEPT ![t].pc = "done"]
            /\ UNCHANGED <<_host_sems, global_sem>>
       ELSE LET h == SemHost(gtask[t].src)
                e == EnterGate(h, global_sem, get_host_sem(_host_sems, h))
            IN /\ gtask' = [gtask EXCEPT ![t].pc = e.pc]
               /\ _host_sems' = e.hosts
               /\ global_sem' = e.global
    /\ UNCHANGED <<fetchVars, runVars, storeVars>>

\* a coroutine waiting for the global semaphore gets a permit and goes on
AcquireGlobal(t) ==
    /\ started = Len(gtask)
    /\ gtask[t].pc = "global"
    /\ CanAcquire(global_sem)
    /\ LET e == EnterGate(SemHost(gtask[t].src), global_sem, _host_sems)
       IN /\ gtask' = [gtask EXCEPT ![t].pc = e.pc]
          /\ _host_sems' = e.hosts
          /\ global_sem' = e.global
    /\ UNCHANGED <<started, fetchVars, runVars, storeVars>>

\* a coroutine waiting for its host semaphore gets a permit; session.get(url)
AcquireHost(t) ==
    /\ started = Len(gtask)
    /\ gtask[t].pc = "host"
    /\ CanAcquire(_host_sems[SemHost(gtask[t].src)])
    /\ _host_sems' = [_host_sems EXCEPT ![SemHost(gtask[t].src)] = @ - 1]
    /\ gtask' = [gtask EXCEPT ![t].pc = "request"]
    /\ UNCHANGED <<global_sem, started, fetchVars, runVars, storeVars>>

\* The request ends (response, HTTP error, timeout or any exception): the
\* with-block is left, both permits go back; a probe goes on with its next year.
GateRespond(t, how) ==
    /\ started = Len(gtask)
    /\ gtask[t].pc = "request"
    /\ _host_sems' = [_host_sems EXCEPT ![SemHost(gtask[t].src)] = Release(@, how)]
    /\ global_sem' = Release(global_sem, how)
    /\ gtask' = [gtask EXCEPT ![t] =
           [src |-> @.src, left |-> @.left - 1,
            pc |-> IF @.left > 1 THEN "global" ELSE "done"]]
    /\ UNCHANGED <<started, fetchVars, runVars, storeVars>>

\* The registries tried: nA sources on host "a", the rest on host "b", and a
\* last source of any shape.
LastSources ==
    {FixedSource("b"), FixedSource(""), ProbeSource("a", "a"),
     ProbeSource("", "b"), ProbeSource("a", "b")}

GateInit ==
    /\ global_sem = MAX_GLOBAL_CONCURRENT
    /\ _host_sems = << >>
    /\ started = 0
    /\ \E nA \in 0..(NumGate - 1), last \in LastSources :
          gtask = [t \in 1..NumGate |->
                     LET src == IF t = NumGate THEN last
                                ELSE IF t <= nA THEN FixedSource("a") ELSE FixedSource("b")
                     IN [src |-> src, left |-> Requests(src), pc |-> "new"]]

\* run_all_checks is not running
GateIdle ==
    /\ global_sem = MAX_GLOBAL_CONCURRENT
    /\ _host_sems = << >>
    /\ started = 0
    /\ gtask = << >>

NextGate ==
    \/ \E t \in GateTasks : Start(t)
    \/ \E t \in GateTasks : AcquireGlobal(t)
    \/ \E t \in GateTasks : AcquireHost(t)
    \/ \E t \in GateTasks, how \in {"return", "next", "raise"} : GateRespond(t, how)

(***************************************************************************)
(* The two tile-generation workflows: generate_source (overview) and       *)
(* generate (multi-layer), their MBTiles store and the server they fetch   *)
(* from.                                                                   *)
(***************************************************************************)
(***************************************************************************)
(* Bounds of the workflow model.                                           *)
(***************************************************************************)
MaxOverride == 3     \* largest --max-zoom override tried
MaxRunTiles == 110   \* the runs tried enumerate at most this many tile keys
MaxZoomMulti == 3    \* largest zoom argument of the multi-layer workflow
NumClasses == 2      \* classes of URLs the server tells apart
MaxUpserts == 3      \* upserts in a row (store alone)
DeepZoom == 4        \* zoom level of the runs with several batches per level
NumStoreRows == 2    \* XYZ rows upserted (store alone)

ALPHA_THRESHOLD == 30
BATCH_OVERVIEW == 32
BATCH_MULTI == 64
DEFAULT_MAX_ZOOM == 6
PNG_MIN_LEN == 8       \* a PNG file is never empty (signature bytes)
MERC_BITS == 24

(***************************************************************************)
(* WMS_SOURCES: three entries of the registry.  Degrees are kept in tenths *)
(* (bounds = west, south, east, north).                                    *)
(***************************************************************************)
WMS_SOURCES ==
    [crome           |-> [bounds |-> <<-60, 495, 20, 560>>, max_zoom |-> 8,
                          default_year |-> 2024],
     brp_netherlands |-> [bounds |-> <<30, 505, 75, 540>>, max_zoom |-> 8],
     esa_worldcover  |-> [bounds |-> <<-1800, -850, 1800, 850>>, max_zoom |-> 6,
                          default_year |-> 2021]]

\* Python's int(): truncation towards zero of num / den (den > 0)
int(num, den) == IF num >= 0 THEN num \div den ELSE -((-num) \div den)

max(a, b) == IF a >= b THEN a ELSE b
min(a, b) == IF a <= b THEN a ELSE b

\* int((lon + 180) / 360 * (2 ** z)), lon in tenths of a degree
lon_to_tile_x(lon, zz) == int((lon + 1800) * 2^zz, 3600)

\* (1 - log(tan(lat_rad) + 1 / cos(lat_rad)) / pi) / 2 for the latitudes of
\* the registry entries above and for latitudes at and near the poles, as
\* value * 2^MERC_BITS truncated towards zero
MercatorFraction(lat) ==
    CASE lat = -899 -> 27197224
      [] lat = -850 -> 16749736
      [] lat = 0    -> 8388608
      [] lat = 495  -> 5725969
      [] lat = 505  -> 5653463
      [] lat = 540  -> 5386856
      [] lat = 560  -> 5224313
      [] lat = 850  -> 27479
      [] lat = 890  -> -4271631
      [] lat = 900  -> -93144876

\* math.log(x) raises ValueError unless x > 0: tan(lat_rad) + 1 / cos(lat_rad)
\* is positive for -90 < lat <= 90 (at 90 degrees the floating-point tangent
\* is finite and huge), zero at -90 and negative beyond either pole
LogDomain(lat) == lat > -900 /\ lat <= 900

\* int(fraction * n) with n = 2 ** z
lat_to_tile_y(lat, zz) == int(MercatorFraction(lat) * 2^zz, 2^MERC_BITS)

flip_y_xyz(zz, y) == y
flip_y(zz, y) == 2^zz - 1 - y

\* Python's "a or b" for an optional integer a: None and 0 are falsy
OrElse(opt, default) ==
    IF opt = {} \/ opt = {0} THEN default ELSE CHOOSE m \in opt : TRUE

\* generate_source lines 442-445: the tile range of the bounds at zoom zz
TileRange(bounds, zz) ==
    [x_min |-> max(0, lon_to_tile_x(bounds[1], zz)),
     x_max |-> min(2^zz - 1, lon_to_tile_x(bounds[3], zz)),
     y_min |-> max(0, lat_to_tile_y(bounds[4], zz)),
     y_max |-> min(2^zz - 1, lat_to_tile_y(bounds[2], zz))]

\* the keys (z, x, y) of a level in the order of the two nested for loops
\* (rows outside, columns inside), as a sequence
RangeKeys(zz, r) ==
    LET w == max(0, r.x_max - r.x_min + 1)
        h == max(0, r.y_max - r.y_min + 1)
    IN [i \in 1..(w * h) |-> <<zz, r.x_min + ((i - 1) % w), r.y_min + ((i - 1) \div w)>>]

OverviewKeys(sid, zz) == RangeKeys(zz, TileRange(WMS_SOURCES[sid].bounds, zz))

\* generate lines 199-210: for y in range(n): for x in range(n)
MultiKeys(zz) ==
    RangeKeys(zz, [x_min |-> 0, x_max |-> 2^zz - 1, y_min |-> 0, y_max |-> 2^zz - 1])

\* the tile keys a run enumerates over its zoom levels lo..hi
RECURSIVE RunTiles(_, _, _)
RunTiles(sid, lo, hi) ==
    IF hi < lo THEN 0
    ELSE Len(OverviewKeys(sid, hi)) + RunTiles(sid, lo, hi - 1)

RECURSIVE MultiTiles(_, _)
MultiTiles(lo, hi) ==
    IF hi < lo THEN 0 ELSE Len(MultiKeys(hi)) + MultiTiles(lo, hi - 1)

(***************************************************************************)
(* The server.  A script is what a URL answers attempt after attempt (the  *)
(* last answer is repeated); the server gives each class of URLs a script. *)
(***************************************************************************)
\* mostly transparent, one opaque pixel between the sampled positions
ImgSpot == [px |-> (1 :> <<200, 30, 30, 255>>), bg |-> <<0, 0, 0, 0>>]

Scripts ==
    { <<Response(200, PngBody(ImgOpaque, 5000))>>,
      <<Raises("TimeoutError"), Response(200, PngBody(ImgOpaque, 5000))>>,
      <<Response(200, PngBody(ImgClear, 300))>>,
      <<Response(200, PngBody(ImgSpot, 300))>>,
      <<Response(200, JunkBody(300))>>,
      <<Raises("ClientError")>>,
      <<Raises("Other")>> }

Servers == [0..(NumClasses - 1) -> Scripts]

\* the class of the URL of tile key for the layer number l (0 in the
\* overview): by column and row, and by layer too at the zoom levels where
\* l * zoom is not a multiple of NumClasses
UrlClass(key, l) == (key[2] + key[3] + l * key[1]) % NumClasses

ScriptAt(script, attempt) ==
    script[IF attempt + 1 > Len(script) THEN Len(script) ELSE attempt + 1]

\* fetch_tile run to its end against a script: the bytes, None, or raised
RECURSIVE FetchFrom(_, _)
FetchFrom(script, attempt) ==
    IF attempt >= range_end THEN [raised |-> FALSE, data |-> None]
    ELSE LET o == ScriptAt(script, attempt)
             how == AfterAttempt(attempt, o)
         IN CASE how = "return" -> [raised |-> FALSE, data |-> o.body]
              [] how = "raise"  -> [raised |-> TRUE, data |-> None]
              [] OTHER          -> FetchFrom(script, attempt + 1)

fetch_tile(script) == FetchFrom(script, 0)

\* Python truthiness of bytes-or-None
Truthy(data) == data # None /\ len(data) > 0

\* Image.open(io.BytesIO(data)).convert("RGBA") raises unless data is an image
Decodes(data) == data.kind = "png"

(***************************************************************************)
(* is_transparent (generate_overview_tiles.py).                            *)
(***************************************************************************)
\* list(pixels)[::step]: the indices 0, step, 2 step, ... below n
Slice_all(n, step) == 0..(n - 1)
Slice(n, step) == {k * step : k \in 0..((n - 1) \div step)}

\* len(pixels): TILE_SIZE x TILE_SIZE unless the image says otherwise
PixelCount(img) == IF "size" \in DOMAIN img THEN img.size ELSE NumPixels

is_transparent(data) ==
    IF ~Decodes(data) THEN TRUE
    ELSE LET n == PixelCount(data.img)
             sample == Slice(n, max(1, n \div 100))
         IN \A i \in sample : PixelAt(data.img, i)[4] = 0

\* if data and not is_transparent(data)
Accepted(data) == Truthy(data) /\ ~is_transparent(data)

(***************************************************************************)
(* combine_tiles and process_tile (generate_worldcereal_croptype.py).      *)
(***************************************************************************)
LAYERS ==
    << [id |-> "maize",          color |-> <<255, 215, 0, 255>>,   priority |-> 1],
       [id |-> "winter_cereals", color |-> <<205, 133, 63, 255>>,  priority |-> 2],
       [id |-> "spring_cereals", color |-> <<144, 238, 144, 255>>, priority |-> 3],
       [id |-> "other_crops",    color |-> <<34, 139, 34, 255>>,   priority |-> 4] >>

\* sorted(LAYERS, key=lambda l: l["priority"]): stable insertion into a sorted list
RECURSIVE InsertSorted(_, _)
InsertSorted(sorted, layer) ==
    IF sorted = << >> THEN <<layer>>
    ELSE IF Head(sorted).priority <= layer.priority
         THEN <<Head(sorted)>> \o InsertSorted(Tail(sorted), layer)
         ELSE <<layer>> \o sorted

SortedLayers_asis(layers) == layers
RECURSIVE SortedLayers(_)
SortedLayers(layers) ==
    IF layers = << >> THEN << >>
    ELSE InsertSorted(SortedLayers(SubSeq(layers, 1, Len(layers) - 1)), layers[Len(layers)])

\* if a > ALPHA_THRESHOLD
Present_ge(a) == a >= ALPHA_THRESHOLD
Present(a) == a > ALPHA_THRESHOLD

\* the innermost loop of combine_tiles at one pixel: pixels maps the ids of the
\* layers present to their pixel there; the colour written, or None if none is
RECURSIVE FirstPresent(_, _)
FirstPresent(order, pixels) ==
    IF order = << >> THEN None
    ELSE LET layer == Head(order)
         IN IF layer.id \in DOMAIN pixels /\ Present(pixels[layer.id][4])
            THEN [kind |-> "color", color |-> layer.color]
            ELSE FirstPresent(Tail(order), pixels)

\* sorted(LAYERS, key=lambda l: l["priority"]), the same at every pixel
PriorityOrder == SortedLayers(LAYERS)

\* combine_tiles: the output image and has_data, the layers taken in order
CompositeWith(order, layer_images) ==
    LET ids == DOMAIN layer_images
        touched == UNION {DOMAIN layer_images[l].px : l \in ids}
        hitAt(i) == FirstPresent(order, [l \in ids |-> PixelAt(layer_images[l], i)])
        hitBg == FirstPresent(order, [l \in ids |-> layer_images[l].bg])
        out(h) == IF h = None THEN <<0, 0, 0, 0>> ELSE h.color
    IN [img |-> [px |-> [i \in touched |-> out(hitAt(i))], bg |-> out(hitBg)],
        has_data |-> \/ \E i \in touched : hitAt(i) # None
                     \/ (Cardinality(touched) < NumPixels /\ hitBg # None)]

Composite(layer_images) == CompositeWith(PriorityOrder, layer_images)

\* if not has_data: return None; output.save(buf, "PNG", optimize=True)
Encode(c) ==
    IF ~c.has_data THEN None ELSE PngBody(c.img, PNG_MIN_LEN + Cardinality(DOMAIN c.img.px))

combine_tiles(layer_images) == Encode(Composite(layer_images))

\* layer_images.get(layer["id"]) on a dict kept as its (id, image) pairs in
\* insertion order
dict_get(d, id) ==
    IF \E i \in 1..Len(d) : d[i][1] = id
    THEN d[CHOOSE i \in 1..Len(d) : d[i][1] = id][2]
    ELSE None

\* the dict as the mapping its lookups give
AsMap(d) == [id \in {d[i][1] : i \in 1..Len(d)} |-> dict_get(d, id)]

\* process_tile's last lines, with the list LAYERS written as list and the
\* dict filled as d: None for an empty dict, else combine_tiles
CombineListed(list, d) ==
    IF d = << >> THEN None ELSE Encode(CompositeWith(SortedLayers(list), AsMap(d)))

\* a sequence given element by element
Listed(f, n) == SubSeq(f, 1, n)

\* process_tile after its gather (lines 173-183): the results are decoded,
\* layer by layer in the order of LAYERS, and combined
decode_and_combine(fetched) ==
    LET good == {n \in 1..Len(LAYERS) : Truthy(fetched[n].data) /\ Decodes(fetched[n].data)}
        ids == {LAYERS[n].id : n \in good}
        layer_images == [l \in ids |-> fetched[CHOOSE n \in good : LAYERS[n].id = l].data.img]
    IN IF \E n \in 1..Len(LAYERS) : fetched[n].raised THEN [raised |-> TRUE, data |-> None]
       ELSE IF ids = {} THEN [raised |-> FALSE, data |-> None]
       ELSE [raised |-> FALSE, data |-> combine_tiles(layer_images)]

\* process_tile: the four fetches of a tile, decoded and combined
process_tile(srv, key) ==
    decode_and_combine(Listed([n \in 1..Len(LAYERS) |-> fetch_tile(srv[UrlClass(key, n)])],
                              Len(LAYERS)))

\* the overview's fetch of a tile
fetch_overview(srv, key) == fetch_tile(srv[UrlClass(key, 0)])

(***************************************************************************)
(* The MBTiles store.  A table is the sequence of its rows, oldest first.  *)
(* A row of table tiles carries, as history, the XYZ key it was written    *)
(* for (field xyz); the unique index tile_index is on (zoom_level,         *)
(* tile_column, tile_row).                                                 *)
(***************************************************************************)
SameKey(q, r) ==
    /\ q.zoom_level = r.zoom_level
    /\ q.tile_column = r.tile_column
    /\ q.tile_row = r.tile_row

\* INSERT OR REPLACE INTO tiles VALUES (?,?,?,?) under the unique index: the
\* rows in conflict with the new one are deleted, then the row is inserted
InsertOrReplace_plain(table, row) == Append(table, row)
InsertOrReplace(table, row) == Append(SelectSeq(table, LAMBDA q : ~SameKey(q, row)), row)

\* the rows of a table, as a set
Rows(table) == {table[i] : i \in 1..Len(table)}

\* tms_y = flip_y(bz, by); db.execute(..., (bz, bx, tms_y, data))
TileRow(key, data) ==
    [zoom_level |-> key[1], tile_column |-> key[2], tile_row |-> flip_y(key[1], key[3]),
     tile_data |-> data, xyz |-> key]

\* the metadata rows init_mbtiles inserts (name and description left out)
InitialMetadata == {<<"format", "png">>, <<"type", "overlay">>}

NoFile == [tiles |-> << >>, metadata |-> {}]
StaleFile ==
    [tiles |-> <<TileRow(<<0, 0, 0>>, PngBody(ImgSpot, 300))>>, metadata |-> InitialMetadata]

\* db.commit()
Commit(t, m) == [tiles |-> t, metadata |-> m]

\* table metadata has no unique index: INSERT OR REPLACE adds the row
InsertMetadata(m, name, value) == m \cup {<<name, value>>}

(***************************************************************************)
(* A batch: asyncio.gather over its tiles, then the for loop over          *)
(* zip(batch, results).  keep[i] is the loop's condition for tile i.       *)
(***************************************************************************)
\* one turn of the for loop over zip(batch, results); st.i is the turn
StoreOne_both(st, key, data, kept) ==
    [i       |-> st.i + 1,
     tiles   |-> IF kept THEN InsertOrReplace(st.tiles, TileRow(key, data)) ELSE st.tiles,
     saved   |-> IF kept THEN st.saved + 1 ELSE st.saved,
     skipped |-> st.skipped + 1,
     thist   |-> Append(st.thist, [key |-> key, data |-> data,
                                   counted |-> IF kept THEN "saved" ELSE "skipped"])]
StoreOne(st, key, data, kept) ==
    IF kept
    THEN [i       |-> st.i + 1,
          tiles   |-> InsertOrReplace(st.tiles, TileRow(key, data)),
          saved   |-> st.saved + 1,
          skipped |-> st.skipped,
          thist   |-> Append(st.thist, [key |-> key, data |-> data, counted |-> "saved"])]
    ELSE [i       |-> st.i + 1,
          tiles   |-> st.tiles,
          saved   |-> st.saved,
          skipped |-> st.skipped + 1,
          thist   |-> Append(st.thist, [key |-> key, data |-> data, counted |-> "skipped"])]

\* the loop from turn st.i on
RECURSIVE StoreResults(_, _, _, _)
StoreResults(st, batch, results, keep) ==
    IF st.i > Len(batch) THEN st
    ELSE StoreResults(StoreOne(st, batch[st.i], results[st.i].data, keep[st.i]),
                      batch, results, keep)

\* gather raises as soon as one of its coroutines raises, and the results of
\* the others are dropped; history then records the fetches that had returned
\* before it (those ahead of it in the batch).
Settle(batch, results, keep) ==
    IF \E i \in 1..Len(batch) : results[i].raised
    THEN LET first == CHOOSE i \in 1..Len(batch) :
                         results[i].raised /\ \A j \in 1..(i - 1) : ~results[j].raised
         IN [failed |-> TRUE, tiles |-> tiles, saved |-> saved, skipped |-> skipped,
             thist |-> thist \o [j \in 1..(first - 1) |->
                                    [key |-> batch[j], data |-> results[j].data, counted |-> "no"]]]
    ELSE LET st == StoreResults([i |-> 1, tiles |-> tiles, saved |-> saved, skipped |-> skipped,
                                 thist |-> thist], batch, results, keep)
         IN [failed |-> FALSE, tiles |-> st.tiles, saved |-> st.saved,
             skipped |-> st.skipped, thist |-> st.thist]

\* results = await asyncio.gather(*[fetch_tile(session, b[3], semaphore) for b in batch])
\* and the loop's condition "data and not is_transparent(data)" per tile
OverviewBatchResult(batch) ==
    LET n == Len(batch)
        results == Listed([i \in 1..n |-> fetch_overview(server, batch[i])], n)
    IN Settle(batch, results, Listed([i \in 1..n |-> Accepted(results[i].data)], n))

\* results = await asyncio.gather(*[process_tile(...) for bz, bx, by in batch])
\* and the loop's condition "png_data" per tile
MultiBatchResult(batch) ==
    LET n == Len(batch)
        results == Listed([i \in 1..n |-> process_tile(server, batch[i])], n)
    IN Settle(batch, results, Listed([i \in 1..n |-> Truthy(results[i].data)], n))

\* line 238: db.commit() at the end of the in-loop flush of the multi-layer
\* workflow (d is the file as it was)
BatchCommit_missing(t, m, d) == d
BatchCommit(t, m, d) == Commit(t, m)

\* init_mbtiles: the file at the path is removed if there is one, the two
\* tables and the index are created in a new file, the first metadata rows
\* are inserted and committed
init_mbtiles_keep(file) == Commit(file.tiles, InitialMetadata)
init_mbtiles(file) == Commit(<< >>, InitialMetadata)

\* src.get("max_zoom", 6)
SourceMaxZoom(sid) ==
    IF "max_zoom" \in DOMAIN WMS_SOURCES[sid] THEN WMS_SOURCES[sid].max_zoom ELSE DEFAULT_MAX_ZOOM

\* max_zoom = max_zoom_override or src.get("max_zoom", 6)
EffectiveMaxZoom(sid, override) == OrElse(override, SourceMaxZoom(sid))

\* for z in range(..., max_zoom + 1): the loop goes on with level zz if there
\* is one, the final metadata follow if not
AfterLevel_short(zz, hi) == IF zz < hi THEN "level" ELSE "finalize"
AfterLevel(zz, hi) == IF zz <= hi THEN "level" ELSE "finalize"

\* batch_size = min(64, n * n)
batch_size_double(zz) == min(2 * BATCH_MULTI, 2^zz * 2^zz)
batch_size_short(zz) == min(BATCH_MULTI - 1, 2^zz * 2^zz)
batch_size(zz) == min(BATCH_MULTI, 2^zz * 2^zz)

(***************************************************************************)
(* generate_source (overview workflow).  One action runs from one          *)
(* suspension of the orchestrator to the next: up to the flush of a full   *)
(* batch, or to the end of the zoom level.                                 *)
(***************************************************************************)
\* lines 412-438: max_zoom, init_mbtiles (removes the file), counters, z = 0
OverviewStart ==
    /\ pc = "start" /\ workflow = "overview"
    /\ max_zoom' = EffectiveMaxZoom(source_id, max_zoom_override)
    /\ disk' = init_mbtiles(disk)
    /\ tiles' = disk'.tiles
    /\ metadata' = disk'.metadata
    /\ saved' = 0 /\ skipped' = 0
    /\ z' = 0 /\ level_done' = 0
    /\ pc' = AfterLevel(0, max_zoom')
    /\ UNCHANGED <<path_before, unitVars, tile_bytes, layer_list, images, png_data, bulk, attempts, inflight, workflow, source_id, max_zoom_override, min_zoom, server, thist, log>>
    /\ UNCHANGED <<fetchVars, gateVars>>

\* lines 451-474: the batch reaches 32 keys inside the loops and is flushed
OverviewBatch ==
    /\ pc = "level" /\ workflow = "overview"
    /\ LET keys == OverviewKeys(source_id, z)
       IN /\ Len(keys) - level_done >= BATCH_OVERVIEW
          /\ LET r == OverviewBatchResult(SubSeq(keys, level_done + 1, level_done + BATCH_OVERVIEW))
             IN /\ tiles' = r.tiles
                /\ saved' = r.saved
                /\ skipped' = r.skipped
                /\ thist' = r.thist
                /\ pc' = IF r.failed THEN "failed" ELSE "level"
                /\ level_done' = IF r.failed THEN level_done ELSE level_done + BATCH_OVERVIEW
    /\ UNCHANGED <<path_before, unitVars, tile_bytes, layer_list, images, png_data, bulk, attempts, inflight, workflow, source_id, max_zoom_override, min_zoom, max_zoom, server, z>>
    /\ UNCHANGED <<metadata, disk, log, fetchVars, gateVars>>

\* lines 476-491: the loops end, the rest of the batch (if any) is flushed,
\* db.commit(), next zoom level
OverviewEndLevel ==
    /\ pc = "level" /\ workflow = "overview"
    /\ LET keys == OverviewKeys(source_id, z)
       IN /\ Len(keys) - level_done < BATCH_OVERVIEW
          /\ LET r == OverviewBatchResult(SubSeq(keys, level_done + 1, Len(keys)))
             IN /\ tiles' = r.tiles
                /\ saved' = r.saved
                /\ skipped' = r.skipped
                /\ thist' = r.thist
                /\ IF r.failed
                   THEN /\ pc' = "failed"
                        /\ UNCHANGED <<disk, z, level_done>>
                   ELSE /\ disk' = Commit(r.tiles, metadata)
                        /\ z' = z + 1
                        /\ level_done' = 0
                        /\ pc' = AfterLevel(z + 1, max_zoom)
    /\ UNCHANGED <<path_before, unitVars, tile_bytes, layer_list, images, png_data, bulk, attempts, inflight, workflow, source_id, max_zoom_override, min_zoom, max_zoom, server>>
    /\ UNCHANGED <<metadata, log, fetchVars, gateVars>>

\* lines 493-497: minzoom, maxzoom and bounds metadata, commit, close
OverviewFinalize ==
    /\ pc = "finalize" /\ workflow = "overview"
    /\ metadata' = InsertMetadata(InsertMetadata(InsertMetadata(metadata,
                       "minzoom", 0), "maxzoom", max_zoom), "bounds", WMS_SOURCES[source_id].bounds)
    /\ disk' = Commit(tiles, metadata')
    /\ pc' = "done"
    /\ UNCHANGED <<path_before, unitVars, tile_bytes, layer_list, images, png_data, bulk, attempts, inflight, workflow, source_id, max_zoom_override, min_zoom, max_zoom, server,
                   z, level_done, saved, skipped, thist, tiles, log>>
    /\ UNCHANGED <<fetchVars, gateVars>>

(***************************************************************************)
(* generate (multi-layer workflow).                                        *)
(***************************************************************************)
\* lines 188-198: init_mbtiles, counters, z = min_zoom
MultiStart ==
    /\ pc = "start" /\ workflow = "multi"
    /\ disk' = init_mbtiles(disk)
    /\ tiles' = disk'.tiles
    /\ metadata' = disk'.metadata
    /\ saved' = 0 /\ skipped' = 0
    /\ z' = min_zoom /\ level_done' = 0
    /\ pc' = AfterLevel(min_zoom, max_zoom)
    /\ UNCHANGED <<path_before, unitVars, tile_bytes, layer_list, images, png_data, bulk, attempts, inflight, workflow, source_id, max_zoom_override, min_zoom, max_zoom, server, thist, log>>
    /\ UNCHANGED <<fetchVars, gateVars>>

\* lines 208-238: the batch reaches batch_size inside the loops, is flushed
\* and committed
MultiBatch ==
    /\ pc = "level" /\ workflow = "multi"
    /\ LET keys == MultiKeys(z)
           size == batch_size(z)
       IN /\ Len(keys) - level_done >= size
          /\ LET r == MultiBatchResult(SubSeq(keys, level_done + 1, level_done + size))
             IN /\ tiles' = r.tiles
                /\ saved' = r.saved
                /\ skipped' = r.skipped
                /\ thist' = r.thist
                /\ IF r.failed
                   THEN /\ pc' = "failed"
                        /\ UNCHANGED <<disk, level_done>>
                   ELSE /\ disk' = BatchCommit(r.tiles, metadata, disk)
                        /\ level_done' = level_done + size
                        /\ pc' = "level"
    /\ UNCHANGED <<path_before, unitVars, tile_bytes, layer_list, images, png_data, bulk, attempts, inflight, workflow, source_id, max_zoom_override, min_zoom, max_zoom, server, z>>
    /\ UNCHANGED <<metadata, log, fetchVars, gateVars>>

\* lines 240-258: the loops end; "if batch:" flushes and commits what is left
MultiEndLevel ==
    /\ pc = "level" /\ workflow = "multi"
    /\ LET keys == MultiKeys(z)
           rest == SubSeq(keys, level_done + 1, Len(keys))
       IN /\ Len(rest) < batch_size(z)
          /\ LET r == MultiBatchResult(rest)
             IN /\ tiles' = r.tiles
                /\ saved' = r.saved
                /\ skipped' = r.skipped
                /\ thist' = r.thist
                /\ IF r.failed
                   THEN /\ pc' = "failed"
                        /\ UNCHANGED <<disk, z, level_done>>
                   ELSE /\ disk' = IF rest # << >> THEN Commit(r.tiles, metadata) ELSE disk
                        /\ z' = z + 1
                        /\ level_done' = 0
                        /\ pc' = AfterLevel(z + 1, max_zoom)
    /\ UNCHANGED <<path_before, unitVars, tile_bytes, layer_list, images, png_data, bulk, attempts, inflight, workflow, source_id, max_zoom_override, min_zoom, max_zoom, server>>
    /\ UNCHANGED <<metadata, log, fetchVars, gateVars>>

\* lines 260-268: minzoom and maxzoom metadata, commit, close
MultiFinalize ==
    /\ pc = "finalize" /\ workflow = "multi"
    /\ metadata' = InsertMetadata(InsertMetadata(metadata, "minzoom", min_zoom), "maxzoom", max_zoom)
    /\ disk' = Commit(tiles, metadata')
    /\ pc' = "done"
    /\ UNCHANGED <<path_before, unitVars, tile_bytes, layer_list, images, png_data, bulk, attempts, inflight, workflow, source_id, max_zoom_override, min_zoom, max_zoom, server,
                   z, level_done, saved, skipped, thist, tiles, log>>
    /\ UNCHANGED <<fetchVars, gateVars>>

(***************************************************************************)
(* The same workflows step by step: the orchestrator hands a batch to      *)
(* asyncio.gather, the fetch_tile coroutines of the batch run interleaved  *)
(* (Acquire, Respond, Wake), and the orchestrator resumes when the gather  *)
(* is over.  Here the server's answer to an attempt is the one its script  *)
(* gives, and a batch holds at most PipeFetches coroutines.                *)
(***************************************************************************)
PipeFetches == 4   \* coroutines gathered per batch, at most
PipeTiles == 4     \* tile keys of a stepwise run, at most

LevelKeys == IF workflow = "overview" THEN OverviewKeys(source_id, z) ELSE MultiKeys(z)

\* fetches gathered per tile: one, or one per layer (process_tile)
PerTile == IF workflow = "overview" THEN 1 ELSE Len(LAYERS)

\* the batch is flushed inside the loops when it holds this many tile keys
PipeSize ==
    IF workflow = "overview" THEN min(BATCH_OVERVIEW, PipeFetches)
    ELSE min(batch_size(z), max(1, PipeFetches \div Len(LAYERS)))

\* the batches are numbered in the order of their gather
CurrentBatch == IF ftask = << >> THEN 0 ELSE fhist[Len(fhist)].bno

\* await asyncio.gather(...) resumes when every coroutine has returned
GatherOver_any(ft, first, n) == \E i \in 1..n : ft[first + i].pc = "done"
GatherOver(ft, first, n) == \A i \in 1..n : ft[first + i].pc = "done"

\* ... and it raises once one of them has raised
GatherRaised(ft, first, n) == \E i \in 1..n : ft[first + i].pc = "raised"

\* the list gather returns: the result of the i-th awaitable at position i
GatherResults_as_completed(ft, arr, first, n) ==
    LET mine == SelectSeq(arr, LAMBDA t : t > first)
    IN Listed([i \in 1..n |-> IF i <= Len(mine) THEN ft[mine[i]].result ELSE None], n)
GatherResults(ft, arr, first, n) == Listed([i \in 1..n |-> ft[first + i].result], n)

\* the batch is handed to gather: one coroutine per tile (per tile and layer)
PipeGather ==
    /\ pc = "level" /\ inflight = << >>
    /\ LET keys == LevelKeys
           n == min(PipeSize, Len(keys) - level_done)
           new == SubSeq(keys, level_done + 1, level_done + n)
       IN /\ n > 0
          /\ inflight' = new
          /\ ftask' = ftask \o [i \in 1..(n * PerTile) |->
                                   [pc |-> "acquire", attempt |-> 0, result |-> None]]
          /\ fhist' = fhist \o [i \in 1..(n * PerTile) |->
                                   [issued |-> 0, refused |-> FALSE, dataAt |-> 0, dataBody |-> None,
                                    bno |-> CurrentBatch + 1,
                                    key |-> new[((i - 1) \div PerTile) + 1],
                                    layer |-> IF workflow = "overview" THEN 0
                                              ELSE ((i - 1) % PerTile) + 1]]
    /\ UNCHANGED <<path_before, unitVars, tile_bytes, layer_list, images, png_data, bulk, attempts, workflow, source_id, max_zoom_override, min_zoom, max_zoom, server,
                   pc, z, level_done, saved, skipped, thist>>
    /\ arrival' = << >>
    /\ UNCHANGED <<concurrency, semaphore, storeVars, gateVars>>

\* the server answers the attempt of coroutine t as its script says
PipeRespond(t) ==
    Respond(t, ScriptAt(server[UrlClass(fhist[t].key, fhist[t].layer)], ftask[t].attempt))

\* the gather is over: the for loop over zip(batch, results), the commit of
\* the flush, and after the level's last flush the next zoom level
PipeCollect ==
    /\ pc = "level" /\ inflight # << >>
    /\ LET n == Len(inflight)
           first == Len(ftask) - n * PerTile
           got == GatherResults(ftask, arrival, first, n * PerTile)
           results == Listed([i \in 1..n |->
                         IF workflow = "overview" THEN [raised |-> FALSE, data |-> got[i]]
                         ELSE decode_and_combine(Listed([l \in 1..PerTile |->
                                  [raised |-> FALSE, data |-> got[(i - 1) * PerTile + l]]],
                                  PerTile))], n)
           keep == Listed([i \in 1..n |-> IF workflow = "overview"
                                             THEN Accepted(results[i].data)
                                             ELSE Truthy(results[i].data)], n)
           r == Settle(inflight, results, keep)
       IN /\ GatherOver(ftask, first, n * PerTile)
          /\ ~GatherRaised(ftask, first, n * PerTile)
          /\ tiles' = r.tiles
          /\ saved' = r.saved
          /\ skipped' = r.skipped
          /\ thist' = r.thist
          /\ inflight' = << >>
          /\ IF n >= PipeSize
             THEN /\ level_done' = level_done + n
                  /\ disk' = IF workflow = "multi" THEN BatchCommit(r.tiles, metadata, disk)
                             ELSE disk
                  /\ UNCHANGED <<pc, z>>
             ELSE /\ disk' = Commit(r.tiles, metadata)
                  /\ z' = z + 1
                  /\ level_done' = 0
                  /\ pc' = AfterLevel(z + 1, max_zoom)
    /\ UNCHANGED <<path_before, unitVars, tile_bytes, layer_list, images, png_data, bulk, attempts, workflow, source_id, max_zoom_override, min_zoom, max_zoom, server>>
    /\ UNCHANGED <<metadata, log, fetchVars, gateVars>>

\* the loops of the level end with an empty batch: "if batch:" is skipped,
\* the overview commits (line 491), next zoom level
PipeEndLevel ==
    /\ pc = "level" /\ inflight = << >>
    /\ Len(LevelKeys) = level_done
    /\ disk' = IF workflow = "overview" THEN Commit(tiles, metadata) ELSE disk
    /\ z' = z + 1
    /\ level_done' = 0
    /\ pc' = AfterLevel(z + 1, max_zoom)
    /\ UNCHANGED <<path_before, unitVars, tile_bytes, layer_list, images, png_data, bulk, attempts, workflow, source_id, max_zoom_override, min_zoom, max_zoom, server,
                   inflight, saved, skipped, thist>>
    /\ UNCHANGED <<tiles, metadata, log, fetchVars, gateVars>>

\* a coroutine of the batch raised: gather raises, the workflow ends there
PipeFail ==
    /\ pc = "level" /\ inflight # << >>
    /\ GatherRaised(ftask, Len(ftask) - Len(inflight) * PerTile, Len(inflight) * PerTile)
    /\ pc' = "failed"
    /\ UNCHANGED <<path_before, unitVars, tile_bytes, layer_list, images, png_data, bulk, attempts, workflow, source_id, max_zoom_override, min_zoom, max_zoom, server,
                   z, level_done, inflight, saved, skipped, thist>>
    /\ UNCHANGED <<storeVars, fetchVars, gateVars>>

NextPipe ==
    \/ OverviewStart
    \/ MultiStart
    \/ PipeGather
    \/ \E t \in FetchTasks : Acquire(t)
    \/ \E t \in FetchTasks : PipeRespond(t)
    \/ \E t \in FetchTasks : Wake(t)
    \/ \E t \in FetchTasks : Cancel(t)
    \/ PipeCollect
    \/ PipeEndLevel
    \/ PipeFail
    \/ OverviewFinalize
    \/ MultiFinalize

\* the command line: one source with or without a --max-zoom override, or
\* the multi-layer run with its zoom range; the file found at the output path
Overrides == {{}} \cup {{m} : m \in 0..MaxOverride}
OldFiles == {NoFile, StaleFile}

RunInitOn(servers, files) ==
    /\ workflow \in {"overview", "multi"}
    /\ IF workflow = "overview"
       THEN /\ source_id \in DOMAIN WMS_SOURCES
            /\ max_zoom_override \in Overrides
            /\ RunTiles(source_id, 0, EffectiveMaxZoom(source_id, max_zoom_override)) <= MaxRunTiles
            /\ min_zoom = 0
            /\ max_zoom = 0
       ELSE /\ source_id = "none"
            /\ max_zoom_override = {}
            /\ min_zoom \in 0..MaxZoomMulti
            /\ max_zoom \in 0..MaxZoomMulti
            /\ MultiTiles(min_zoom, max_zoom) <= MaxRunTiles
    /\ server \in servers
    /\ disk \in files
    /\ pc = "start"
    /\ z = 0 /\ level_done = 0 /\ saved = 0 /\ skipped = 0
    /\ inflight = << >>
    /\ bulk = FALSE /\ attempts = << >>
    /\ layer_list = << >> /\ images = << >> /\ png_data = None /\ tile_bytes = None
    /\ UnitIdle
    /\ path_before = disk
    /\ tiles = << >> /\ metadata = {}
    /\ thist = << >> /\ log = << >>

\* any server; a file is found at the output path
RunInit == RunInitOn(Servers, {StaleFile})

\* a file left by an earlier, longer run
LongerFile ==
    Commit(<<TileRow(<<0, 0, 0>>, PngBody(ImgSpot, 300)),
             TileRow(<<1, 1, 0>>, PngBody(ImgSpot, 300)),
             TileRow(<<2, 3, 3>>, PngBody(ImgOpaque, 5000))>>,
           InsertMetadata(InsertMetadata(InitialMetadata, "minzoom", 0), "maxzoom", 2))

\* runs whose last zoom level takes several batches: the world source up to
\* zoom DeepZoom, the multi-layer run ending at zoom DeepZoom; the server
\* tells two classes of URLs apart
DeepServers == {srv \in Servers : \A c \in DOMAIN srv : srv[c] = srv[c % 2]}

\* the same runs started on no file, on a stale file and on a longer one
RunInitRerun == RunInitOn(DeepServers, OldFiles \cup {LongerFile})

RunInitDeep ==
    /\ workflow \in {"overview", "multi"}
    /\ IF workflow = "overview"
       THEN /\ source_id = "esa_worldcover"
            /\ max_zoom_override = {DeepZoom}
            /\ min_zoom = 0
            /\ max_zoom = 0
       ELSE /\ source_id = "none"
            /\ max_zoom_override = {}
            /\ min_zoom \in {0, DeepZoom}
            /\ max_zoom = DeepZoom
    /\ server \in DeepServers
    /\ disk = NoFile
    /\ pc = "start"
    /\ z = 0 /\ level_done = 0 /\ saved = 0 /\ skipped = 0
    /\ inflight = << >>
    /\ bulk = FALSE /\ attempts = << >>
    /\ layer_list = << >> /\ images = << >> /\ png_data = None /\ tile_bytes = None
    /\ UnitIdle
    /\ path_before = disk
    /\ tiles = << >> /\ metadata = {}
    /\ thist = << >> /\ log = << >>

\* a run followed step by step: few tile keys, any concurrency limit
RunInitPipe ==
    /\ workflow \in {"overview", "multi"}
    /\ IF workflow = "overview"
       THEN /\ source_id \in DOMAIN WMS_SOURCES
            /\ max_zoom_override \in Overrides \ {{}}
            /\ RunTiles(source_id, 0, EffectiveMaxZoom(source_id, max_zoom_override)) <= PipeTiles
            /\ min_zoom = 0
            /\ max_zoom = 0
       ELSE /\ source_id = "none"
            /\ max_zoom_override = {}
            /\ min_zoom \in 0..MaxZoomMulti
            /\ max_zoom \in 0..MaxZoomMulti
            /\ MultiTiles(min_zoom, max_zoom) <= PipeTiles
    /\ server \in DeepServers
    /\ disk = NoFile
    /\ pc = "start"
    /\ z = 0 /\ level_done = 0 /\ saved = 0 /\ skipped = 0
    /\ inflight = << >>
    /\ bulk = FALSE /\ attempts = << >>
    /\ layer_list = << >> /\ images = << >> /\ png_data = None /\ tile_bytes = None
    /\ UnitIdle
    /\ path_before = disk
    /\ tiles = << >> /\ metadata = {}
    /\ thist = << >> /\ log = << >>
    /\ concurrency \in 1..MaxConcurrency
    /\ semaphore = concurrency
    /\ ftask = << >>
    /\ fhist = << >>
    /\ arrival = << >>

(***************************************************************************)
(* generate_all: the overview workflow for every source of the registry,   *)
(* one after the other.  Each source has its own server and output file.   *)
(***************************************************************************)
\* for source_id in WMS_SOURCES: the registry in the order it is written
SourceOrder == <<"crome", "brp_netherlands", "esa_worldcover">>

\* except Exception as e: the exception classes of the model all derive
\* from Exception
IsException_narrow(e) == Caught(e)
IsException(e) == e \in {"ClientError", "TimeoutError", "Other"}

ScriptOpaque == <<Response(200, PngBody(ImgOpaque, 5000))>>
ScriptRefused == <<Raises("ClientError")>>
ScriptOther == <<Raises("Other")>>

\* the servers tried in a bulk run: good, unreachable, or broken in a way
\* fetch_tile does not handle, per class of URL
BulkServers == {srv \in DeepServers :
                   \A c \in DOMAIN srv : srv[c] \in {ScriptOpaque, ScriptRefused, ScriptOther}}

\* the tile keys of all sources together under one --max-zoom
RECURSIVE BulkTiles(_, _)
BulkTiles(n, override) ==
    IF n = 0 THEN 0
    ELSE BulkTiles(n - 1, override)
           + RunTiles(SourceOrder[n], 0, EffectiveMaxZoom(SourceOrder[n], override))

RunInitBulk ==
    /\ workflow = "overview"
    /\ source_id = SourceOrder[1]
    /\ max_zoom_override \in Overrides
    /\ BulkTiles(Len(SourceOrder), max_zoom_override) <= MaxRunTiles
    /\ min_zoom = 0
    /\ max_zoom = 0
    /\ server \in BulkServers
    /\ disk \in OldFiles
    /\ pc = "start"
    /\ z = 0 /\ level_done = 0 /\ saved = 0 /\ skipped = 0
    /\ inflight = << >>
    /\ bulk = TRUE /\ attempts = << >>
    /\ layer_list = << >> /\ images = << >> /\ png_data = None /\ tile_bytes = None
    /\ UnitIdle
    /\ path_before = disk
    /\ tiles = << >> /\ metadata = {}
    /\ thist = << >> /\ log = << >>

\* year = year_override or src.get("default_year") (line 416); generate_all
\* passes no year_override ({} is None)
SourceYear(sid) ==
    IF "default_year" \in DOMAIN WMS_SOURCES[sid] THEN {WMS_SOURCES[sid].default_year} ELSE {}

\* lines 420-421: suffix = f"_{yr}" if yr else "",
\* os.path.join(output_dir, f"{source_id}{suffix}.mbtiles")
mbtiles_path_fixed(sid, yr) == "pmtiles/overview.mbtiles"
mbtiles_path(sid, yr) ==
    "pmtiles/" \o sid
        \o (IF yr = {} THEN "" ELSE "_" \o ToString(CHOOSE y \in yr : TRUE))
        \o ".mbtiles"

\* the output path of the run of source sid under generate_all
BulkPath(sid) == mbtiles_path(sid, SourceYear(sid))

\* history: the run that ends is recorded with its output path and the file
\* it leaves there
Attempted(h) ==
    Append(h, [source |-> source_id, failed |-> pc = "failed",
               path |-> BulkPath(source_id), file |-> disk])

\* what the next run finds at path p: the file an earlier run of this
\* generate_all left there, if any, and an old file or none otherwise
FoundAt(h, p, old) ==
    LET earlier == {i \in 1..Len(h) : h[i].path = p}
    IN IF earlier = {} THEN old
       ELSE {h[CHOOSE i \in earlier : \A j \in earlier : j <= i].file}

\* lines 509-514: generate_source has returned or raised; an Exception is
\* caught and printed, the for loop goes on with the next source (its own
\* server, its own output path) or generate_all returns
NextSource ==
    /\ bulk /\ pc \in {"done", "failed"}
    /\ LET n == Len(attempts) + 1
       IN /\ attempts' = Attempted(attempts)
          /\ IF pc = "failed" /\ ~IsException("Other")
             THEN /\ pc' = "raised"
                  /\ UNCHANGED <<source_id, server, disk, path_before, thist>>
             ELSE IF n < Len(SourceOrder)
             THEN /\ pc' = "start"
                  /\ source_id' = SourceOrder[n + 1]
                  /\ server' \in BulkServers
                  /\ disk' \in FoundAt(attempts', BulkPath(source_id'), OldFiles)
                  /\ path_before' = disk'
                  /\ thist' = << >>
             ELSE /\ pc' = "returned"
                  /\ UNCHANGED <<source_id, server, disk, path_before, thist>>
    /\ UNCHANGED <<unitVars, tile_bytes, layer_list, images, png_data, bulk, workflow, max_zoom_override, min_zoom, max_zoom, z, level_done,
                   inflight, saved, skipped>>
    /\ UNCHANGED <<tiles, metadata, log, fetchVars, gateVars>>

NextBulk ==
    \/ OverviewStart
    \/ OverviewBatch
    \/ OverviewEndLevel
    \/ OverviewFinalize
    \/ NextSource

(***************************************************************************)
(* One tile of the multi-layer workflow alone: the images decoded for its  *)
(* layers are combined (process_tile, lines 173-183) and the result goes   *)
(* through the loop that writes to the store (generate, lines 216-226).    *)
(***************************************************************************)
NumSpots == 2   \* pixel positions at which the images tried may differ from their background

LayerIds == {LAYERS[n].id : n \in 1..Len(LAYERS)}

\* the images tried: fully transparent, fully opaque, and transparent but for
\* one pixel whose alpha is at or just above the threshold
TileImages ==
    {ImgClear, ImgOpaque}
      \cup {[px |-> (i :> <<200, 30, 30, a>>), bg |-> <<0, 0, 0, 0>>] :
               i \in 0..(NumSpots - 1), a \in {ALPHA_THRESHOLD, ALPHA_THRESHOLD + 1}}

\* the orders in which the list LAYERS may be written
ListOrders == {[i \in 1..Len(LAYERS) |-> LAYERS[f[i]]] : f \in Permutations(1..Len(LAYERS))}

\* the (id, image) pairs of a mapping in the order ord of its ids
Inserted(map, ord) == [i \in 1..Len(ord) |-> <<ord[i], map[ord[i]]>>]

\* the ids in the order process_tile inserts them: that of LAYERS
RegistryOrder(ids) ==
    LET ofList == [i \in 1..Len(LAYERS) |-> LAYERS[i].id]
    IN SelectSeq(ofList, LAMBDA id : id \in ids)

\* the tile key of the tile looked at
OneKey == <<0, 0, 0>>

TileInit ==
    /\ workflow = "multi"
    /\ source_id = "none"
    /\ max_zoom_override = {}
    /\ min_zoom = 0 /\ max_zoom = 0
    /\ server = << >>
    /\ pc = "process"
    /\ z = 0 /\ level_done = 0 /\ saved = 0 /\ skipped = 0
    /\ inflight = << >>
    /\ bulk = FALSE /\ attempts = << >>
    /\ thist = << >> /\ log = << >>
    /\ tiles = << >> /\ metadata = InitialMetadata
    /\ disk = Commit(<< >>, InitialMetadata)
    /\ png_data = None /\ tile_bytes = None
    /\ UnitIdle
    /\ path_before = disk
    /\ \E ids \in SUBSET LayerIds :
         \E map \in [ids -> TileImages] :
           \E n \in 1..Len(LAYERS) :   \* rotations of the order of insertion
             \E list \in ListOrders :
               /\ list = LAYERS \/ n = 1 \/ (n = 2 /\ list[1].priority = Len(LAYERS))
               /\ layer_list = list
               /\ images = LET ord == RegistryOrder(ids)
                                k == Len(ord)
                            IN Inserted(map, [i \in 1..k |-> ord[((i + n - 2) % max(k, 1)) + 1]])

\* process_tile from "if not layer_images" on
CombineTile ==
    /\ pc = "process"
    /\ png_data' = CombineListed(layer_list, images)
    /\ pc' = "store"
    /\ UNCHANGED <<path_before, unitVars, tile_bytes, layer_list, images, bulk, attempts, inflight, workflow, source_id,
                   max_zoom_override, min_zoom, max_zoom, server, z, level_done,
                   saved, skipped, thist>>
    /\ UNCHANGED <<storeVars, fetchVars, gateVars>>

\* generate's loop body for the tile: "if png_data:" upsert and saved += 1,
\* else skipped += 1; then the commit of the batch
StoreTile ==
    /\ pc = "store"
    /\ LET st == StoreOne([i |-> 1, tiles |-> tiles, saved |-> saved, skipped |-> skipped,
                           thist |-> thist], OneKey, png_data, Truthy(png_data))
       IN /\ tiles' = st.tiles
          /\ saved' = st.saved
          /\ skipped' = st.skipped
          /\ thist' = st.thist
          /\ disk' = BatchCommit(st.tiles, metadata, disk)
    /\ pc' = "done"
    /\ UNCHANGED <<path_before, unitVars, tile_bytes, layer_list, images, png_data, bulk, attempts, inflight, workflow, source_id,
                   max_zoom_override, min_zoom, max_zoom, server, z, level_done>>
    /\ UNCHANGED <<metadata, log, fetchVars, gateVars>>

NextTile ==
    \/ CombineTile
    \/ StoreTile

(***************************************************************************)
(* One tile of the overview workflow alone: the bytes fetch_tile returned  *)
(* go through the loop body of generate_source (lines 460-469), which      *)
(* asks is_transparent.                                                    *)
(***************************************************************************)
MaxPixels == 320   \* pixels of the largest image tried besides the full-size ones

\* images of n pixels, clear but for at most one pixel of alpha 1 among the
\* first few and the last two
SmallImages ==
    UNION {{[px |-> << >>, bg |-> <<0, 0, 0, 0>>, size |-> n]}
             \cup {[px |-> (i :> <<9, 9, 9, 1>>), bg |-> <<0, 0, 0, 0>>, size |-> n] :
                      i \in {j \in 0..(n - 1) : j <= 6 \/ j >= n - 2}} : n \in 1..MaxPixels}

\* full-size images with one opaque pixel at or next to a sampled position
EdgeImages ==
    {[px |-> (i :> <<200, 30, 30, 255>>), bg |-> <<0, 0, 0, 0>>] :
        i \in {0, 654, 655, 656, 65500, NumPixels - 1}}

FilterInputs ==
    {JunkBody(300)}
      \cup {PngBody(img, 300) :
               img \in {ImgClear, ImgOpaque, ImgSpot} \cup EdgeImages \cup SmallImages}

FilterInit ==
    /\ workflow = "overview"
    /\ source_id = "none"
    /\ max_zoom_override = {}
    /\ min_zoom = 0 /\ max_zoom = 0
    /\ server = << >>
    /\ pc = "filter"
    /\ z = 0 /\ level_done = 0 /\ saved = 0 /\ skipped = 0
    /\ inflight = << >>
    /\ bulk = FALSE /\ attempts = << >>
    /\ layer_list = << >> /\ images = << >> /\ png_data = None
    /\ thist = << >> /\ log = << >>
    /\ tiles = << >> /\ metadata = InitialMetadata
    /\ disk = Commit(<< >>, InitialMetadata)
    /\ tile_bytes \in FilterInputs
    /\ UnitIdle
    /\ path_before = disk

\* lines 460-469 for the tile: "if data and not is_transparent(data)" upsert
\* and saved += 1, else skipped += 1
FilterTile ==
    /\ pc = "filter"
    /\ LET st == StoreOne([i |-> 1, tiles |-> tiles, saved |-> saved, skipped |-> skipped,
                           thist |-> thist], OneKey, tile_bytes, Accepted(tile_bytes))
       IN /\ tiles' = st.tiles
          /\ saved' = st.saved
          /\ skipped' = st.skipped
          /\ thist' = st.thist
    /\ pc' = "done"
    /\ UNCHANGED <<path_before, unitVars, tile_bytes, layer_list, images, png_data, bulk, attempts, inflight, workflow,
                   source_id, max_zoom_override, min_zoom, max_zoom, server, z, level_done>>
    /\ UNCHANGED <<metadata, disk, log, fetchVars, gateVars>>

NextFilter == FilterTile

\* no workflow is running
RunIdle ==
    /\ workflow = "none"
    /\ source_id = "none"
    /\ max_zoom_override = {}
    /\ min_zoom = 0 /\ max_zoom = 0
    /\ server = << >>
    /\ pc = "idle"
    /\ z = 0 /\ level_done = 0 /\ saved = 0 /\ skipped = 0
    /\ inflight = << >>
    /\ bulk = FALSE /\ attempts = << >>
    /\ layer_list = << >> /\ images = << >> /\ png_data = None /\ tile_bytes = None
    /\ thist = << >>
    /\ path_before = NoFile

StoreIdle ==
    /\ tiles = << >> /\ metadata = {}
    /\ disk = NoFile
    /\ log = << >>

NextRun ==
    \/ OverviewStart
    \/ OverviewBatch
    \/ OverviewEndLevel
    \/ OverviewFinalize
    \/ MultiStart
    \/ MultiBatch
    \/ MultiEndLevel
    \/ MultiFinalize

(***************************************************************************)
(* The store alone: any sequence of upserts on a freshly initialised file. *)
(***************************************************************************)
StoreKeys ==
    {k \in (1..2) \X (0..1) \X (0..(NumStoreRows - 1)) : k[3] <= 2^(k[1]) - 1}
StoreData == {PngBody(ImgOpaque, 5000), PngBody(ImgSpot, 300)}

StoreInit ==
    /\ tiles = << >>
    /\ metadata = InitialMetadata
    /\ disk = Commit(<< >>, InitialMetadata)
    /\ log = << >>

\* tms_y = flip_y(bz, by); db.execute("INSERT OR REPLACE INTO tiles ...")
StoreUpsert(key, data) ==
    /\ pc = "idle"
    /\ Len(log) < MaxUpserts
    /\ tiles' = InsertOrReplace(tiles, TileRow(key, data))
    /\ log' = Append(log, [key |-> key, data |-> data])
    /\ UNCHANGED <<metadata, disk, runVars, fetchVars, gateVars>>

NextStore == \E key \in StoreKeys, data \in StoreData : StoreUpsert(key, data)

vars == <<fetchVars, gateVars, runVars, storeVars>>

InitFetch == FetchInit /\ GateIdle /\ RunIdle /\ UnitIdle /\ StoreIdle
SpecFetch == InitFetch /\ [][NextFetch]_vars

InitGate == GateInit /\ FetchIdle /\ RunIdle /\ UnitIdle /\ StoreIdle
SpecGate == InitGate /\ [][NextGate]_vars

\* either kind of run: the semaphores of both
SpecSem == (InitFetch \/ InitGate) /\ [][NextFetch \/ NextGate]_vars

\* a run of one of the two workflows
Init == RunInit /\ FetchIdle /\ GateIdle
Spec == Init /\ [][NextRun]_vars

\* a run over whatever the output path held before
InitRerun == RunInitRerun /\ FetchIdle /\ GateIdle
SpecRerun == InitRerun /\ [][NextRun]_vars

\* a run with several batches in its last zoom level
InitDeep == RunInitDeep /\ FetchIdle /\ GateIdle
SpecDeep == InitDeep /\ [][NextRun]_vars

\* a run followed step by step
InitPipe == RunInitPipe /\ GateIdle
SpecPipe == InitPipe /\ [][NextPipe]_vars

\* a bulk run over the registry
InitBulk == RunInitBulk /\ FetchIdle /\ GateIdle
SpecBulk == InitBulk /\ [][NextBulk]_vars

\* one tile of the multi-layer workflow
InitTile == TileInit /\ FetchIdle /\ GateIdle
SpecTile == InitTile /\ [][NextTile]_vars

\* one tile of the overview workflow
InitFilter == FilterInit /\ FetchIdle /\ GateIdle
SpecFilter == InitFilter /\ [][NextFilter]_vars

InitStore == StoreInit /\ RunIdle /\ UnitIdle /\ FetchIdle /\ GateIdle
SpecStore == InitStore /\ [][NextStore]_vars

(***************************************************************************)
(* Claims about fetch_tile and the run's semaphore (SpecFetch).            *)
(***************************************************************************)
Finished(t) == ftask[t].pc \in {"done", "raised"}

\* C1: at every moment the number of fetch_tile attempts that hold a permit of
\* the run's semaphore is at most the configured concurrency limit, however
\* many coroutines were gathered.
C1_PermitsBounded ==
    Cardinality({t \in FetchTasks : Holding(t)}) <= concurrency

\* the limit is reached while another coroutine waits for a permit
C1_Witness ==
    /\ Cardinality({t \in FetchTasks : Holding(t)}) = concurrency
    /\ \E t \in FetchTasks : ftask[t].pc = "acquire"
    /\ \E t \in FetchTasks : ftask[t].pc = "sleep"

\* C3: every permit acquired for a fetch is released when the attempt ends,
\* whatever its outcome; once all fetch tasks have finished, every semaphore
\* (the run's, the global one, each host's) is back at its initial count.
C3_PermitsRestored ==
    /\ semaphore = concurrency - Cardinality({t \in FetchTasks : Holding(t)})
    /\ global_sem = MAX_GLOBAL_CONCURRENT
                      - Cardinality({t \in GateTasks : gtask[t].pc \in {"host", "request"}})
    /\ \A h \in DOMAIN _host_sems :
          _host_sems[h] = MAX_HOST_CONCURRENT
              - Cardinality({t \in GateTasks : gtask[t].pc = "request" /\ SemHost(gtask[t].src) = h})
    /\ (\A t \in FetchTasks : Finished(t)) => semaphore = concurrency
    /\ (\A t \in GateTasks : gtask[t].pc = "done") =>
          /\ global_sem = 6
          /\ \A h \in DOMAIN _host_sems : _host_sems[h] = 2

\* all coroutines of a gather have finished: one returned data, one returned
\* no data after its retries, one raised
C3_Witness ==
    /\ FetchTasks # {}
    /\ \A t \in FetchTasks : Finished(t)
    /\ \E t, u, v \in FetchTasks :
          /\ ftask[t].pc = "raised"
          /\ ftask[u].pc = "done" /\ ftask[u].result = None
          /\ ftask[v].pc = "done" /\ ftask[v].result # None

\* C5 (as claimed): fetch_tile never propagates an error to its caller.
C5_NeverRaises ==
    \A t \in FetchTasks : ftask[t].pc # "raised"

\* C6: fetch_tile makes at most 3 HTTP attempts for one URL; it stops at the
\* first attempt that yields data; when every attempt fails (timeout,
\* connection error, non-200 or undersized body) it makes exactly 3 attempts
\* and returns no data.
C6_AttemptBudget ==
    \A t \in FetchTasks :
        /\ fhist[t].issued <= 3
        /\ ftask[t].pc = "acquire" => fhist[t].issued < 3
        /\ fhist[t].dataAt # 0 =>
               ftask[t].pc = "done" /\ fhist[t].issued = fhist[t].dataAt
        /\ (ftask[t].pc = "done" /\ fhist[t].dataAt = 0) =>
               fhist[t].issued = 3 /\ ftask[t].result = None

\* three failed attempts, then no data; and data from a second attempt
C6_Witness ==
    \E t, u \in FetchTasks :
        /\ ftask[t].pc = "done" /\ ftask[t].result = None
        /\ fhist[t].issued = 3
        /\ ftask[u].pc = "done" /\ ftask[u].result # None /\ fhist[u].issued = 2

\* C7: fetch_tile returns bytes iff some attempt received status 200 with a
\* body strictly longer than 100 bytes, and then returns the body of the first
\* such attempt; shorter 200 bodies and non-200 responses never yield data.
C7_DataIffGoodResponse ==
    \A t \in FetchTasks :
        /\ ftask[t].result = fhist[t].dataBody
        /\ ftask[t].pc = "done" => (ftask[t].result # None <=> fhist[t].dataAt # 0)
        /\ ftask[t].pc # "done" => ftask[t].result = None

\* data returned by the third attempt, after two attempts that carried none
C7_Witness ==
    \E t \in FetchTasks :
        /\ ftask[t].pc = "done" /\ ftask[t].result # None
        /\ fhist[t].issued = 3

(***************************************************************************)
(* Claims about the gate of check_sources (SpecGate).                      *)
(***************************************************************************)
GateInFlight == {t \in GateTasks : gtask[t].pc = "request"}

HoldsGlobal(t) == gtask[t].pc \in {"host", "request"}

HoldsHostPermit(t, h) == gtask[t].pc = "request" /\ SemHost(gtask[t].src) = h

\* C2 (as claimed): a request is issued only while its task holds a permit of
\* the global semaphore and a permit of the semaphore of the request's host;
\* hence at most 6 requests are in flight in total and at most 2 to any host.
C2_GateBounds ==
    /\ \A t \in GateInFlight : HoldsGlobal(t) /\ HoldsHostPermit(t, ReqHost(gtask[t].src))
    /\ Cardinality(GateInFlight) <= 6
    /\ \A h \in {"a", "b", "unknown"} :
          Cardinality({t \in GateInFlight : ReqHost(gtask[t].src) = h}) <= 2

HostFree(h) == h \notin DOMAIN _host_sems \/ _host_sems[h] > 0

\* C4 (as claimed): whenever the budget of a task's host has a free permit and
\* fewer than 6 requests are in flight, a task waiting to fetch from that host
\* can proceed: tasks waiting for another host's permit occupy no global permit.
C4_NoCrossHostDelay ==
    \A t \in GateTasks :
        (/\ gtask[t].pc = "global"
         /\ HostFree(SemHost(gtask[t].src))
         /\ Cardinality(GateInFlight) < 6)
        => global_sem > 0

(***************************************************************************)
(* Claims about the two workflows and the store (Spec, SpecStore).         *)
(***************************************************************************)
\* C8: every row written to table tiles for the XYZ tile (z, x, y), by either
\* workflow, has zoom_level = z, tile_column = x and tile_row = 2^z - 1 - y,
\* which lies in 0 .. 2^z - 1; so a tile sits under its XYZ row only where
\* the two rows coincide.
C8_StoredRowIsFlipped ==
    \A r \in Rows(tiles) \cup Rows(disk.tiles) :
        /\ r.zoom_level = r.xyz[1]
        /\ r.tile_column = r.xyz[2]
        /\ r.tile_row = 2^(r.xyz[1]) - 1 - r.xyz[3]
        /\ r.tile_row \in 0..(2^(r.xyz[1]) - 1)

\* a committed row whose stored row differs from its XYZ row, next to the
\* zoom-0 row where they coincide
C8_Witness ==
    /\ pc = "done"
    /\ \E r \in Rows(disk.tiles) : r.xyz[1] >= 1 /\ r.tile_row # r.xyz[3]
    /\ \E r \in Rows(disk.tiles) : r.xyz[1] = 0 /\ r.tile_row = r.xyz[3]

\* C9: in the overview workflow a tile key whose fetch returned is skipped
\* (counted in skipped, no row written) iff the fetch returned no data or the
\* transparency filter declared its image empty; otherwise it is written to
\* the store and counted in saved.
C9_SkippedIffNoDataOrEmpty ==
    workflow = "overview" =>
        /\ \A n \in 1..Len(thist) :
              LET h == thist[n]
              IN IF h.data = None \/ is_transparent(h.data)
                 THEN /\ h.counted = "skipped"
                      /\ ~\E r \in Rows(tiles) : r.xyz = h.key
                 ELSE /\ h.counted = "saved"
                      /\ \E r \in Rows(tiles) : r.xyz = h.key /\ r.tile_data = h.data
        /\ skipped = Cardinality({n \in 1..Len(thist) : thist[n].counted = "skipped"})
        /\ saved = Cardinality({n \in 1..Len(thist) : thist[n].counted = "saved"})

\* C10: after any sequence of upserts table tiles holds at most one row per
\* (zoom_level, tile_column, tile_row); every key upserted has exactly one
\* row, carrying the bytes of the last upsert of that key, and no other row
\* exists (so upserting a key again changes that key's row only).
C10_UpsertIdempotent ==
    /\ \A m, n \in 1..Len(tiles) : SameKey(tiles[m], tiles[n]) => m = n
    /\ \A i \in 1..Len(log) :
          LET last == CHOOSE j \in i..Len(log) :
                         /\ log[j].key = log[i].key
                         /\ \A k \in (j + 1)..Len(log) : log[k].key # log[i].key
              mine == {n \in 1..Len(tiles) : tiles[n].xyz = log[i].key}
          IN /\ Cardinality(mine) = 1
             /\ \A n \in mine : tiles[n].tile_data = log[last].data
    /\ \A n \in 1..Len(tiles) : \E i \in 1..Len(log) : log[i].key = tiles[n].xyz

\* a key upserted twice with different bytes after another key was upserted
C10_Witness ==
    /\ Len(log) = 3
    /\ log[1].key # log[2].key
    /\ log[2].key = log[3].key
    /\ log[2].data # log[3].data
    /\ Len(tiles) = 2

(***************************************************************************)
(* Claims about commits, batches and the order of a run (Spec).            *)
(***************************************************************************)
\* rows upserted on the connection that no commit has made durable yet
Uncommitted == Rows(tiles) \ Rows(disk.tiles)

\* C11: the overview workflow commits after each fetch batch as well as after
\* each zoom level: whenever the orchestrator is about to fetch the next
\* batch every upserted tile has been committed, and at no moment are more
\* than one batch's tiles (32) upserted but not committed.
C11_OverviewCommitPerBatch ==
    workflow = "overview" =>
        /\ pc = "level" => Uncommitted = {}
        /\ Cardinality(Uncommitted) <= 32

\* C12: the multi-layer workflow commits after each fetch batch: every step
\* of the run leaves all upserted tiles committed before the next batch is
\* fetched, and the tiles a step upserts ahead of its commit are at most one
\* batch (64).
C12_MultiCommitPerBatch ==
    [][workflow = "multi" =>
          /\ Rows(tiles') \subseteq Rows(disk'.tiles)
          /\ Cardinality(Rows(tiles') \ Rows(disk.tiles)) <= 64]_vars

\* the third batch of a zoom level is about to be fetched, the two before it
\* were stored and committed
C12_Witness ==
    /\ workflow = "multi" /\ pc = "level"
    /\ z = DeepZoom /\ level_done = 2 * batch_size(z)
    /\ Len(disk.tiles) >= 2 * batch_size(z)
    /\ disk.tiles = tiles

(***************************************************************************)
(* Claims about the batches of a run followed step by step (SpecPipe).     *)
(***************************************************************************)
\* the for loop over zip(batch, results) has dealt with tile key k
HandedToStore(k) == \E n \in 1..Len(thist) : thist[n].key = k

\* C13: batches are processed strictly one after another: whenever a fetch
\* coroutine of a later batch exists, every fetch coroutine of each earlier
\* batch has returned and the results of that batch have been dealt with by
\* the loop that writes to the store.
C13_BatchesSequential ==
    \A t, u \in FetchTasks :
        fhist[t].bno < fhist[u].bno =>
            /\ ftask[t].pc = "done"
            /\ HandedToStore(fhist[t].key)

\* a fetch of the second batch is under way (holding a permit while another
\* waits for one) after the first batch was stored
C13_Witness ==
    /\ \E u \in FetchTasks : fhist[u].bno = 2 /\ ftask[u].pc = "sleep"
    /\ \E u \in FetchTasks : fhist[u].bno = 2 /\ ftask[u].pc = "acquire"
    /\ \E t \in FetchTasks : fhist[t].bno = 1 /\ ftask[t].result # None
    /\ Len(tiles) >= 1

\* what the server's scripts make of tile key k, computed without any
\* interleaving: the bytes fetched (overview) or composited (multi-layer)
BytesFor(k) ==
    IF workflow = "overview" THEN fetch_overview(server, k).data
    ELSE process_tile(server, k).data

\* the tile keys of zoom levels lo .. hi in the order of the loops
RECURSIVE KeysFrom(_, _)
KeysFrom(lo, hi) ==
    IF lo > hi THEN << >>
    ELSE (IF workflow = "overview" THEN OverviewKeys(source_id, lo) ELSE MultiKeys(lo))
             \o KeysFrom(lo + 1, hi)

\* the rows written for the history entries counted as saved, in order
RECURSIVE RowsOf(_, _)
RowsOf(h, n) ==
    IF n = 0 THEN << >>
    ELSE IF h[n].counted = "saved"
         THEN Append(RowsOf(h, n - 1), TileRow(h[n].key, BytesFor(h[n].key)))
         ELSE RowsOf(h, n - 1)

\* C14: the store's contents do not depend on the order in which the fetches
\* of a batch complete: for the server's fixed answers, the tile keys are
\* dealt with in the order of enumeration, each with the bytes fetched (or
\* composited) for that very key, and table tiles is the sequence of rows
\* these give, whatever the interleaving of the coroutines was.
C14_StoreDeterministic ==
    pc # "start" =>
        LET keys == KeysFrom(IF workflow = "overview" THEN 0 ELSE min_zoom, max_zoom)
        IN /\ Len(thist) <= Len(keys)
           /\ \A n \in 1..Len(thist) :
                 /\ thist[n].key = keys[n]
                 /\ thist[n].data = BytesFor(keys[n])
           /\ tiles = RowsOf(thist, Len(thist))

\* a stored batch whose later coroutine finished first, the two tiles
\* carrying different bytes and the earlier one fetched at its second attempt
C14_Witness ==
    /\ pc = "done" /\ Len(tiles) >= 2
    /\ \E a, b \in 1..Len(arrival) :
          /\ a < b /\ arrival[a] > arrival[b]
          /\ ftask[arrival[a]].result # ftask[arrival[b]].result
          /\ ftask[arrival[b]].attempt = 1
          /\ ftask[arrival[a]].result # None

(***************************************************************************)
(* Claims about the order of a run (Spec).                                 *)
(***************************************************************************)
FirstLevel == IF workflow = "overview" THEN 0 ELSE min_zoom

\* the tile keys the loop that writes to the store has dealt with, in order
KeysDealtWith(h) == [n \in 1..Len(h) |-> h[n].key]

HasMetadata(m, name) == \E row \in m : row[1] = name

\* C15: a run goes Init -> FetchZoomLevel(z) -> ... -> Finalize -> Done: it
\* starts at the first level (0 in the overview, min_zoom in the multi-layer
\* workflow), a level is left only for the next one up, with every tile key
\* of the levels so far dealt with exactly once, and the levels end right
\* after max_zoom; the final minzoom/maxzoom metadata are written only then,
\* with every tile committed, and nothing is fetched or upserted afterwards.
C15_RunOrder ==
    [][/\ pc = "start" =>
             /\ pc' \in {"level", "finalize"}
             /\ z' = FirstLevel
             /\ pc' = "level" <=> FirstLevel <= max_zoom'
       /\ pc = "level" =>
             /\ z <= max_zoom
             /\ pc' \in {"level", "finalize", "failed"}
             /\ z' \in {z, z + 1}
             /\ z' = z + 1 => KeysDealtWith(thist') = KeysFrom(FirstLevel, z)
             /\ pc' = "finalize" <=> z' = max_zoom + 1
             /\ ~HasMetadata(metadata', "maxzoom") /\ ~HasMetadata(disk'.metadata, "maxzoom")
       /\ pc = "finalize" =>
             /\ pc' = "done"
             /\ z = max(FirstLevel, max_zoom + 1)
             /\ KeysDealtWith(thist) = KeysFrom(FirstLevel, max_zoom)
             /\ Rows(tiles) \subseteq Rows(disk.tiles)
             /\ ~HasMetadata(metadata, "maxzoom")
             /\ HasMetadata(disk'.metadata, "minzoom") /\ HasMetadata(disk'.metadata, "maxzoom")
             /\ tiles' = tiles /\ thist' = thist /\ disk'.tiles = disk.tiles
       /\ pc \in {"done", "failed"} => FALSE]_vars

\* a finished multi-layer run that started above zoom 0 and went through
\* three levels
C15_Witness ==
    /\ workflow = "multi" /\ pc = "done"
    /\ min_zoom = 1 /\ max_zoom = 3
    /\ Len(thist) = Len(KeysFrom(1, 3))
    /\ HasMetadata(disk.metadata, "maxzoom")
    /\ Len(disk.tiles) > 0

(***************************************************************************)
(* Claims about generate_all (SpecBulk).                                   *)
(***************************************************************************)
\* C16: a bulk run attempts every source of the registry exactly once, in
\* registry order, whichever sources fail: the source in progress is the one
\* after those attempted so far, an exception raised while a source is
\* processed never reaches the caller of generate_all, and generate_all
\* returns only when the whole registry has been attempted.
C16_EverySourceAttempted ==
    bulk =>
        /\ Len(attempts) <= Len(SourceOrder)
        /\ \A n \in 1..Len(attempts) : attempts[n].source = SourceOrder[n]
        /\ pc # "raised"
        /\ pc = "returned" <=> (Len(attempts) = Len(SourceOrder) /\ pc \notin {"done", "failed"})
        /\ pc # "returned" => source_id = SourceOrder[min(Len(attempts) + 1, Len(SourceOrder))]
        /\ pc \in {"start", "level", "finalize"} => Len(attempts) < Len(SourceOrder)

\* generate_all has returned after the first and the last source failed and
\* the one in between succeeded
C16_Witness ==
    /\ bulk /\ pc = "returned"
    /\ Len(attempts) = 3
    /\ attempts[1].failed /\ ~attempts[2].failed /\ attempts[3].failed

(***************************************************************************)
(* Claims about the compositing of one tile (SpecTile).                    *)
(***************************************************************************)
\* the alpha layer id has at pixel i of its decoded image; -1 without image
AlphaOf(id, i) ==
    IF \E k \in 1..Len(images) : images[k][1] = id
    THEN PixelAt(images[CHOOSE k \in 1..Len(images) : images[k][1] = id][2], i)[4]
    ELSE -1

\* the pixels looked at: every position at which an image tried can differ
\* from its background, one background pixel, and the last pixel
CheckedPixels == 0..NumSpots \cup {NumPixels - 1}

\* the layers with presence at pixel i
PresentAt(i) == {n \in 1..Len(layer_list) : AlphaOf(layer_list[n].id, i) > 30}

\* the colour the rule gives pixel i
RulePixel(i) ==
    IF PresentAt(i) = {} THEN <<0, 0, 0, 0>>
    ELSE layer_list[CHOOSE n \in PresentAt(i) :
                       \A m \in PresentAt(i) : layer_list[n].priority <= layer_list[m].priority].color

OutPixel(i) == IF png_data = None THEN <<0, 0, 0, 0>> ELSE PixelAt(png_data.img, i)

\* C18: the composite depends only on the set of (layer id, image) pairs:
\* whatever the order in which the dict was filled and the order in which the
\* list LAYERS is written, the result is the one the registry's order gives
\* for the same pairs; and where two layers overlap the pixel never carries
\* the colour of the one with the higher priority number.
C18_OrderIndependent ==
    (layer_list # << >> /\ pc \in {"store", "done"}) =>
        /\ png_data = (IF images = << >> THEN None ELSE combine_tiles(AsMap(images)))
        /\ \A i \in CheckedPixels : \A a, b \in 1..Len(LAYERS) :
              (/\ LAYERS[a].priority < LAYERS[b].priority
               /\ AlphaOf(LAYERS[a].id, i) > 30
               /\ AlphaOf(LAYERS[b].id, i) > 30) => OutPixel(i) # LAYERS[b].color

\* the list written with other_crops first and the dict filled starting with
\* another layer than the registry's first; maize and other_crops overlap at
\* pixel 0, which comes out in the colour of maize
C18_Witness ==
    /\ pc = "store" /\ Len(layer_list) = 4
    /\ layer_list[1].id = "other_crops" /\ layer_list[4].id = "maize"
    /\ Len(images) = 4 /\ images[1][1] = "winter_cereals"
    /\ AlphaOf("maize", 0) = 31 /\ AlphaOf("other_crops", 0) = 31
    /\ AlphaOf("winter_cereals", 0) = 30
    /\ OutPixel(0) = <<255, 215, 0, 255>>

(***************************************************************************)
(* Claims about what is skipped (Spec).                                    *)
(***************************************************************************)
\* the images fetched and decoded for the layers of tile key k
DecodedFor(k) ==
    LET got(l) == fetch_tile(server[UrlClass(k, l)]).data
    IN {got(l).img : l \in {n \in 1..Len(LAYERS) : Truthy(got(n)) /\ Decodes(got(n))}}

\* image img has a pixel with alpha above 30
HasPresence(img) ==
    \/ \E i \in DOMAIN img.px : img.px[i][4] > 30
    \/ (Cardinality(DOMAIN img.px) < NumPixels /\ img.bg[4] > 30)

\* C19: in the multi-layer workflow a tile whose fetches returned yields no
\* data, is counted as skipped and gets no row in the store if and only if
\* none of its fetched and decoded layer images has a pixel with alpha > 30.
C19_SkippedIffNoPresence ==
    workflow = "multi" =>
        \A n \in 1..Len(thist) :
            LET h == thist[n]
            IN (/\ h.data = None
                /\ h.counted = "skipped"
                /\ ~\E r \in Rows(tiles) : r.xyz = h.key)
                 <=> ~\E img \in DecodedFor(h.key) : HasPresence(img)

\* the same on the runs in which no fetch raised
C19_OnGoodRuns == (pc # "failed") => C19_SkippedIffNoPresence

(***************************************************************************)
(* Claims about the transparency filter on one tile (SpecFilter).          *)
(***************************************************************************)
\* the loop declared the tile empty: it counted it as skipped
DeclaredEmpty == thist[1].counted = "skipped"

\* the pixel indices of the image fetched whose alpha is not 0
Opaque(img) ==
    {i \in DOMAIN img.px : img.px[i][4] # 0}
      \cup (IF img.bg[4] # 0 THEN (0..(PixelCount(img) - 1)) \ DOMAIN img.px ELSE {})

\* C20: is_transparent declares a tile empty iff decoding fails or every
\* sampled pixel has alpha 0, the sampled pixels being those at indices
\* 0, s, 2s, ... with s = max(1, N div 100) for N pixels; so a fully
\* transparent tile is declared empty, a tile declared non-empty has a pixel
\* of non-zero alpha, and a tile whose only non-zero-alpha pixels lie off the
\* stride is declared empty and skipped.
C20_SampledTransparency ==
    (tile_bytes # None /\ pc = "done") =>
        LET img == tile_bytes.img
            N == PixelCount(img)
            s == IF N \div 100 >= 1 THEN N \div 100 ELSE 1
        IN /\ DeclaredEmpty <=>
                \/ tile_bytes.kind # "png"
                \/ \A i \in 0..(N - 1) : i % s = 0 => PixelAt(img, i)[4] = 0
           /\ tile_bytes.kind = "png" =>
                /\ Opaque(img) = {} => DeclaredEmpty
                /\ ~DeclaredEmpty => Opaque(img) # {}
                /\ (\A i \in Opaque(img) : i % s # 0) =>
                      /\ DeclaredEmpty
                      /\ skipped = 1 /\ saved = 0 /\ tiles = << >>

\* a full-size tile whose only opaque pixel is next to a sampled position
\* (index 656, stride 655) was declared empty and skipped
C20_Witness ==
    /\ tile_bytes # None /\ pc = "done"
    /\ tile_bytes.kind = "png"
    /\ PixelCount(tile_bytes.img) = 65536
    /\ Opaque(tile_bytes.img) = {656}
    /\ DeclaredEmpty /\ skipped = 1 /\ tiles = << >>

(***************************************************************************)
(* The scenario with one tile: a source whose bounds cover the world, run  *)
(* with --max-zoom 0 (or 1, for comparison) against a server that answers  *)
(* every URL alike.                                                        *)
(***************************************************************************)
\* bounds = [-180, -85, 180, 85]
WorldBounds == <<-1800, -850, 1800, 850>>

WorldSources == {sid \in DOMAIN WMS_SOURCES : WMS_SOURCES[sid].bounds = WorldBounds}

\* servers with one answer for all URLs and all attempts
UniformServers == {srv \in Servers : \A c \in DOMAIN srv : srv[c] = srv[0] /\ Len(srv[c]) = 1}

RunInitWorld ==
    /\ workflow = "overview"
    /\ source_id \in WorldSources
    /\ max_zoom_override \in {{0}, {1}}
    /\ min_zoom = 0
    /\ max_zoom = 0
    /\ server \in UniformServers
    /\ disk = StaleFile
    /\ pc = "start"
    /\ z = 0 /\ level_done = 0 /\ saved = 0 /\ skipped = 0
    /\ inflight = << >>
    /\ bulk = FALSE /\ attempts = << >>
    /\ layer_list = << >> /\ images = << >> /\ png_data = None /\ tile_bytes = None
    /\ UnitIdle
    /\ path_before = disk
    /\ tiles = << >> /\ metadata = {}
    /\ thist = << >> /\ log = << >>

NextWorld ==
    \/ OverviewStart
    \/ OverviewBatch
    \/ OverviewEndLevel
    \/ OverviewFinalize

InitWorld == RunInitWorld /\ FetchIdle /\ GateIdle
SpecWorld == InitWorld /\ [][NextWorld]_vars

\* the fetch of every tile succeeds at once with an opaque image
AlwaysOpaque == \A c \in DOMAIN server : server[c] = ScriptOpaque

\* C21: the overview workflow run with max zoom 0 over bounds covering the
\* world, every fetch succeeding with an opaque image, ends with exactly one
\* row in the store, at zoom 0, column 0, stored row 0, with saved = 1 and
\* skipped = 0.  A run never deletes a row and never lowers saved, so it
\* ends that way only if it never has a second row and never counts a
\* second tile.
C21_SingleTile ==
    (/\ workflow = "overview"
     /\ WMS_SOURCES[source_id].bounds = WorldBounds
     /\ max_zoom_override = {0}
     /\ AlwaysOpaque)
    => /\ pc = "done" =>
            /\ Len(disk.tiles) = 1
            /\ disk.tiles[1].zoom_level = 0
            /\ disk.tiles[1].tile_column = 0
            /\ disk.tiles[1].tile_row = 0
            /\ saved = 1
            /\ skipped = 0
       /\ pc \in {"level", "finalize"} =>
            /\ saved <= 1
            /\ \A r \in Rows(tiles) : r.xyz = <<0, 0, 0>>

(***************************************************************************)
(* Claims about a tile whose fetch fails (Spec).                           *)
(***************************************************************************)
\* every attempt fetch_tile makes against the script fails in a way it
\* handles: a timeout or transport error, or a response that is not data
FailsAllAttempts(script) ==
    \A a \in 0..(range_end - 1) :
        LET o == ScriptAt(script, a)
        IN AfterAttempt(a, o) \notin {"return", "raise"}

\* the entries of the history for tile key k
EntriesFor(k) == {n \in 1..Len(thist) : thist[n].key = k}

\* C22: in the overview workflow a tile whose fetch fails on all attempts is
\* skipped: it is counted once, in skipped and not in saved, no row is
\* written for its key, and the other tiles fetched with it are saved or
\* skipped as usual (a tile with an accepted image gets its row).
C22_FailedFetchSkipped ==
    workflow = "overview" =>
        /\ \A n \in 1..Len(thist) :
              LET h == thist[n]
              IN FailsAllAttempts(server[UrlClass(h.key, 0)]) =>
                    /\ h.data = None
                    /\ h.counted = "skipped"
                    /\ EntriesFor(h.key) = {n}
                    /\ ~\E r \in Rows(tiles) : r.xyz = h.key
                    /\ \A k \in 1..Len(thist) :
                          Accepted(thist[k].data) =>
                             /\ thist[k].counted = "saved"
                             /\ \E r \in Rows(tiles) : r.xyz = thist[k].key
        /\ skipped = Cardinality({n \in 1..Len(thist) : thist[n].counted = "skipped"})
        /\ saved = Cardinality({n \in 1..Len(thist) : thist[n].counted = "saved"})

\* the same on the runs in which no fetch raised
C22_OnGoodRuns == (pc # "failed") => C22_FailedFetchSkipped

(***************************************************************************)
(* The tile range of a zoom level alone (generate_source, lines 442-445),  *)
(* for bounds inside, at and beyond the edges of the world.                *)
(***************************************************************************)
MaxRangeZoom == 4

TestLons == {-2000, -1800, -60, 0, 1799, 1800, 1900}
TestLats == {-950, -900, -899, -850, 0, 495, 850, 890, 900, 910}

\* bounds = [west, south, east, north] with west < east and south < north
TestBounds ==
    {b \in TestLons \X TestLats \X TestLons \X TestLats : b[1] < b[3] /\ b[2] < b[4]}

\* lines 442-445: the four assignments, or the ValueError of math.log in
\* lat_to_tile_y
LevelRange(bounds, zz) ==
    IF LogDomain(bounds[4]) /\ LogDomain(bounds[2])
    THEN [raised |-> FALSE, range |-> TileRange(bounds, zz)]
    ELSE [raised |-> TRUE]

RangeInit ==
    /\ geo_bounds \in TestBounds
    /\ geo_zoom \in 0..MaxRangeZoom
    /\ tile_range = None

ComputeRange ==
    /\ geo_bounds # << >> /\ tile_range = None
    /\ tile_range' = LevelRange(geo_bounds, geo_zoom)
    /\ UNCHANGED <<geo_bounds, geo_zoom, tripVars, urlVars, checkVars>>
    /\ UNCHANGED <<workflow, source_id, max_zoom_override, min_zoom, max_zoom, server,
                   pc, z, level_done, inflight, saved, skipped, bulk, attempts, thist,
                   layer_list, images, png_data, tile_bytes, path_before>>
    /\ UNCHANGED <<storeVars, fetchVars, gateVars>>

NextRange == ComputeRange

InitRange == RangeInit /\ TripIdle /\ UrlIdle /\ CheckIdle /\ RunIdle /\ StoreIdle /\ FetchIdle /\ GateIdle
SpecRange == InitRange /\ [][NextRange]_vars

\* C23: for every zoom level and every bounds the range computed by
\* generate_source has x_min, x_max, y_min and y_max all in 0 .. 2^z - 1, and
\* bounds that reach or exceed the edge of the world are clamped without an
\* error being raised.
C23_RangeClamped ==
    tile_range # None =>
        /\ ~tile_range.raised
        /\ \A v \in {tile_range.range.x_min, tile_range.range.x_max,
                     tile_range.range.y_min, tile_range.range.y_max} :
              v \in 0..(2^geo_zoom - 1)

\* bounds inside the Web-Mercator world and short of its eastern edge
InsideWorld(b) == b[1] >= -1800 /\ b[1] < 1800 /\ b[2] >= -850 /\ b[4] <= 850

\* the same for bounds inside the world
C23_InsideWorld == InsideWorld(geo_bounds) => C23_RangeClamped

(***************************************************************************)
(* The round trip of a tile: tile_bbox_4326, then lon_to_tile_x and        *)
(* lat_to_tile_y on a point of the box.  The longitudes of the box are     *)
(* exact in floating point (tenths of a degree here); its latitudes are    *)
(* floats that no decimal names, kept as the grid line they stand for.     *)
(***************************************************************************)
MaxTripZoom == 3

\* the float math.degrees(math.atan(math.sinh(math.pi * (1 - 2 * y / n)))):
\* the latitude of grid line y of n; 2 * y / n is exact, so the lines y of n
\* and 2 y of 2 n are the same float
RECURSIVE GridLat(_, _)
GridLat(y, n) ==
    IF n > 1 /\ y % 2 = 0 THEN GridLat(y \div 2, n \div 2) ELSE [line |-> y, of |-> n]

\* the float (lat_min + lat_max) / 2 of row r at a level of n rows
MidLat(r, n) == [mid |-> r, of |-> n]

\* the grid lines whose latitude, put back through the formula of
\* lat_to_tile_y, gives a fraction just below line / of (rounding of
\* sinh, atan, tan, cos and log in double precision)
GridShort == {<<1, 1>>, <<1, 4>>, <<1, 16>>, <<11, 16>>,
              <<3, 32>>, <<7, 32>>, <<9, 32>>, <<23, 32>>, <<31, 32>>}

\* (1 - log(tan(lat_rad) + 1 / cos(lat_rad)) / pi) / 2 for the latitudes of
\* the rows' centres, as value * 2^MERC_BITS truncated towards zero
MidFraction ==
    <<  <<8388608>>,
        <<6194892, 10582323>>,
        <<2830023, 6743576, 10033639, 13947192>>,
        <<1247613, 3338196, 5406887, 7412677, 9364538, 11370328, 13439019, 15529602>>,
        <<575144, 1623380, 2671216, 3718208, 4763485, 5805561, 6842623, 7874144,
          8903071, 9934592, 10971654, 12013730, 13059007, 14105999, 15153835, 16202071>> >>

RECURSIVE Log2(_)
Log2(n) == IF n <= 1 THEN 0 ELSE 1 + Log2(n \div 2)

\* the same fraction for a latitude of a box
BoxFraction(lat) ==
    IF "line" \in DOMAIN lat
    THEN (lat.line * 2^MERC_BITS) \div lat.of
            - (IF <<lat.line, lat.of>> \in GridShort THEN 1 ELSE 0)
    ELSE MidFraction[Log2(lat.of) + 1][lat.mid + 1]

\* lat_to_tile_y on a latitude of a box
lat_to_tile_y_box(lat, zz) == int(BoxFraction(lat) * 2^zz, 2^MERC_BITS)

\* lon_min, lat_min, lon_max, lat_max
tile_bbox_4326(zz, x, y) ==
    LET n == 2^zz
    IN [lon_min |-> (x * 3600) \div n - 1800,
        lat_min |-> GridLat(y + 1, n),
        lon_max |-> ((x + 1) * 3600) \div n - 1800,
        lat_max |-> GridLat(y, n)]

TripTiles ==
    {<<zz, c, r>> : zz \in 0..MaxTripZoom, c \in 0..(2^MaxTripZoom - 1),
                    r \in 0..(2^MaxTripZoom - 1)}

TripInit ==
    /\ rt_tile \in {t \in TripTiles : t[2] <= 2^(t[1]) - 1 /\ t[3] <= 2^(t[1]) - 1}
    /\ rt_point \in {"corner", "centre"}
    /\ rt_bbox = None
    /\ rt_back = None

BoundingBox ==
    /\ rt_tile # << >> /\ rt_bbox = None
    /\ rt_bbox' = tile_bbox_4326(rt_tile[1], rt_tile[2], rt_tile[3])
    /\ UNCHANGED <<rt_tile, rt_point, rt_back, rangeVars, urlVars, checkVars>>
    /\ UNCHANGED <<workflow, source_id, max_zoom_override, min_zoom, max_zoom, server,
                   pc, z, level_done, inflight, saved, skipped, bulk, attempts, thist,
                   layer_list, images, png_data, tile_bytes, path_before>>
    /\ UNCHANGED <<storeVars, fetchVars, gateVars>>

\* the point of the box: its north-west corner (lon_min, lat_max), or its
\* centre (to the tenth of a degree in longitude)
MapBack ==
    /\ rt_bbox # None /\ rt_back = None
    /\ LET lon == IF rt_point = "corner" THEN rt_bbox.lon_min
                  ELSE (rt_bbox.lon_min + rt_bbox.lon_max) \div 2
           lat == IF rt_point = "corner" THEN rt_bbox.lat_max
                  ELSE MidLat(rt_tile[3], 2^(rt_tile[1]))
       IN rt_back' = <<rt_tile[1], lon_to_tile_x(lon, rt_tile[1]),
                       lat_to_tile_y_box(lat, rt_tile[1])>>
    /\ UNCHANGED <<rt_tile, rt_point, rt_bbox, rangeVars, urlVars, checkVars>>
    /\ UNCHANGED <<workflow, source_id, max_zoom_override, min_zoom, max_zoom, server,
                   pc, z, level_done, inflight, saved, skipped, bulk, attempts, thist,
                   layer_list, images, png_data, tile_bytes, path_before>>
    /\ UNCHANGED <<storeVars, fetchVars, gateVars>>

NextTrip ==
    \/ BoundingBox
    \/ MapBack

InitTrip == TripInit /\ RangeIdle /\ UrlIdle /\ CheckIdle /\ RunIdle /\ StoreIdle /\ FetchIdle /\ GateIdle
SpecTrip == InitTrip /\ [][NextTrip]_vars

\* C24: for every zoom z and every tile (c, r) of that level, the north-west
\* corner and the centre of the box tile_bbox_4326 gives for the tile are
\* mapped back by lon_to_tile_x and lat_to_tile_y to (c, r).
C24_RoundTrip == rt_back # None => rt_back = rt_tile

\* the same for the centre of the box
C24_CentreRoundTrip == (rt_back # None /\ rt_point = "centre") => rt_back = rt_tile

\* the column comes back for either point, and the row of a corner comes
\* back as r or as r - 1
C24_CornerOffByOne ==
    rt_back # None =>
        /\ rt_back[2] = rt_tile[2]
        /\ rt_back[3] \in {rt_tile[3], rt_tile[3] - 1}

(***************************************************************************)
(* build_wms_url alone.  The URL is kept as the record of its parameters;  *)
(* a number of the BBOX carries the name of the variable it was formatted  *)
(* from.  Metres are whole metres.                                         *)
(***************************************************************************)
MaxUrlZoom == 2
ORIGIN_SHIFT == 20037508

\* x_min, y_min, x_max, y_max in metres
tile_bbox_3857(zz, x, y) ==
    LET n == 2^zz
        span == (2 * ORIGIN_SHIFT) \div n
    IN [x_min |-> -ORIGIN_SHIFT + x * span,
        y_min |-> ORIGIN_SHIFT - (y + 1) * span,
        x_max |-> -ORIGIN_SHIFT + (x + 1) * span,
        y_max |-> ORIGIN_SHIFT - y * span]

\* src.get(key, default)
src_get(src, key, default) == IF key \in DOMAIN src THEN src[key] ELSE default

\* s.replace("{year}", str(year)) on a string kept as the sequence of its parts
replace_year(parts, year) ==
    [i \in 1..Len(parts) |-> IF parts[i] = "{year}" THEN year ELSE parts[i]]

\* one number of the f-string bbox: the variable formatted and its value
Field(name, value) == [name |-> name, value |-> value]

\* if crs == "EPSG:4326" ... if version == "1.3.0": latitude first
LatFirst_any_version(crs, version) == crs = "EPSG:4326"
LatFirst(crs, version) == crs = "EPSG:4326" /\ version = "1.3.0"

\* srs_param = "CRS" if version == "1.3.0" else "SRS"
srs_param(version) == IF version = "1.3.0" THEN "CRS" ELSE "SRS"

build_wms_url(src, zz, x, y, year) ==
    LET crs == src_get(src, "crs", "EPSG:3857")
        version == src_get(src, "wms_version", "1.1.1")
        with_year == year # {} /\ year # {0}
        yr == CHOOSE v \in year : TRUE
        base_url == IF with_year THEN replace_year(src.base_url, yr) ELSE src.base_url
        layer_names == IF with_year THEN replace_year(src.layers, yr) ELSE src.layers
        g == tile_bbox_4326(zz, x, y)
        mt == tile_bbox_3857(zz, x, y)
        bbox == IF crs = "EPSG:4326"
                THEN IF LatFirst(crs, version)
                     THEN <<Field("lat_min", g.lat_min), Field("lon_min", g.lon_min),
                            Field("lat_max", g.lat_max), Field("lon_max", g.lon_max)>>
                     ELSE <<Field("lon_min", g.lon_min), Field("lat_min", g.lat_min),
                            Field("lon_max", g.lon_max), Field("lat_max", g.lat_max)>>
                ELSE <<Field("x_min", mt.x_min), Field("y_min", mt.y_min),
                       Field("x_max", mt.x_max), Field("y_max", mt.y_max)>>
        extra == src_get(src, "extra_params", "")
    IN [base_url |-> base_url, SERVICE |-> "WMS", VERSION |-> version,
        REQUEST |-> "GetMap", LAYERS |-> layer_names,
        srs_param |-> srs_param(version), srs_value |-> crs,
        BBOX |-> bbox, WIDTH |-> TILE_SIZE, HEIGHT |-> TILE_SIZE,
        FORMAT |-> "image/png", TRANSPARENT |-> "TRUE", STYLES |-> "",
        extra |-> IF extra # "" THEN <<extra>> ELSE << >>]

\* registry entries: crs and wms_version present or left to their defaults
UrlSources ==
    LET base == [base_url |-> <<"https://host/wms">>, layers |-> <<"MAP_", "{year}">>]
        crss == {<<>>} \cup {("crs" :> c) : c \in {"EPSG:3857", "EPSG:4326", "EPSG:3035"}}
        versions == {<<>>} \cup {("wms_version" :> v) : v \in {"1.1.1", "1.3.0"}}
        extras == {<<>>, ("extra_params" :> "TIME=2021")}
    IN {base @@ c @@ v @@ e : c \in crss, v \in versions, e \in extras}

UrlTiles ==
    {t \in (0..MaxUrlZoom) \X (0..(2^MaxUrlZoom - 1)) \X (0..(2^MaxUrlZoom - 1)) :
        t[2] <= 2^(t[1]) - 1 /\ t[3] <= 2^(t[1]) - 1}

UrlInit ==
    /\ url_src \in UrlSources
    /\ url_tile \in UrlTiles
    /\ url_year \in {{}, {2021}}
    /\ wms_url = None

BuildUrl ==
    /\ url_tile # << >> /\ wms_url = None
    /\ wms_url' = build_wms_url(url_src, url_tile[1], url_tile[2], url_tile[3], url_year)
    /\ UNCHANGED <<url_src, url_tile, url_year, rangeVars, tripVars, checkVars>>
    /\ UNCHANGED <<workflow, source_id, max_zoom_override, min_zoom, max_zoom, server,
                   pc, z, level_done, inflight, saved, skipped, bulk, attempts, thist,
                   layer_list, images, png_data, tile_bytes, path_before>>
    /\ UNCHANGED <<storeVars, fetchVars, gateVars>>

NextUrl == BuildUrl

InitUrl == UrlInit /\ RangeIdle /\ TripIdle /\ CheckIdle /\ RunIdle /\ StoreIdle /\ FetchIdle /\ GateIdle
SpecUrl == InitUrl /\ [][NextUrl]_vars

\* the names of the variables the four numbers of the BBOX were formatted from
BboxNames == [i \in 1..Len(wms_url.BBOX) |-> wms_url.BBOX[i].name]

\* C25: build_wms_url orders the BBOX as lat_min, lon_min, lat_max, lon_max
\* exactly when the source's CRS is EPSG:4326 and its WMS version is 1.3.0,
\* and as min-x, min-y, max-x, max-y in every other case (lon, lat for
\* EPSG:4326, metres of tile_bbox_3857 otherwise); the reference system
\* parameter is named CRS exactly when the version is 1.3.0, and SRS
\* otherwise.
C25_BboxAxisOrder ==
    wms_url # None =>
        LET crs == src_get(url_src, "crs", "EPSG:3857")
            version == src_get(url_src, "wms_version", "1.1.1")
            g == tile_bbox_4326(url_tile[1], url_tile[2], url_tile[3])
            mt == tile_bbox_3857(url_tile[1], url_tile[2], url_tile[3])
        IN /\ BboxNames = <<"lat_min", "lon_min", "lat_max", "lon_max">>
                <=> (crs = "EPSG:4326" /\ version = "1.3.0")
           /\ ~(crs = "EPSG:4326" /\ version = "1.3.0") =>
                BboxNames = IF crs = "EPSG:4326"
                            THEN <<"lon_min", "lat_min", "lon_max", "lat_max">>
                            ELSE <<"x_min", "y_min", "x_max", "y_max">>
           /\ \A i \in 1..4 :
                wms_url.BBOX[i].value = IF crs = "EPSG:4326" THEN g[BboxNames[i]]
                                        ELSE mt[BboxNames[i]]
           /\ wms_url.srs_param = "CRS" <=> version = "1.3.0"
           /\ wms_url.srs_param \in {"CRS", "SRS"}
           /\ wms_url.srs_value = crs

\* a EPSG:4326 source served over WMS 1.3.0: latitude first, parameter CRS
C25_Witness ==
    /\ wms_url # None
    /\ src_get(url_src, "crs", "") = "EPSG:4326"
    /\ src_get(url_src, "wms_version", "") = "1.3.0"
    /\ url_tile = <<2, 1, 1>>
    /\ wms_url.BBOX = <<Field("lat_min", GridLat(2, 4)), Field("lon_min", -900),
                        Field("lat_max", GridLat(1, 4)), Field("lon_max", 0)>>
    /\ wms_url.srs_param = "CRS"

(***************************************************************************)
(* Claims about a run over an earlier file (SpecRerun).                    *)
(***************************************************************************)
\* the loop's condition for writing the tile of key k
Kept(k) ==
    IF workflow = "overview" THEN Accepted(BytesFor(k)) ELSE Truthy(BytesFor(k))

\* the rows a run of these arguments writes for the server's answers
RowsExpected ==
    LET keys == KeysFrom(FirstLevel, max_zoom)
    IN {TileRow(keys[i], BytesFor(keys[i])) : i \in {j \in 1..Len(keys) : Kept(keys[j])}}

\* C26: init_mbtiles is destructive: right after it table tiles is empty
\* whatever the file at the path held before, so after a completed run the
\* store holds exactly the tiles accepted in this run, and the rows are the
\* same for every run of the same arguments against the same answers of the
\* server (they are a function of these alone).
C26_InitDestructive ==
    /\ (pc \in {"level", "finalize"} /\ thist = << >>) =>
          /\ tiles = << >>
          /\ disk.tiles = << >>
    /\ pc = "done" =>
          /\ Rows(disk.tiles) = Rows(RowsOf(thist, Len(thist)))
          /\ Rows(disk.tiles) = RowsExpected

\* a completed run over a longer file: two rows of the old file are gone (no
\* tile of this run was accepted at their keys), and the third key holds the
\* bytes fetched in this run
C26_Witness ==
    /\ pc = "done"
    /\ path_before = LongerFile
    /\ \E r \in Rows(path_before.tiles) : r.xyz = <<2, 3, 3>>
    /\ ~\E r \in Rows(disk.tiles) : r.xyz \in {<<2, 3, 3>>, <<0, 0, 0>>}
    /\ \E r \in Rows(disk.tiles) : r.xyz = <<1, 1, 0>> /\ r.tile_data = PngBody(ImgOpaque, 5000)
    /\ Len(disk.tiles) >= 2

(***************************************************************************)
(* Claims about the registry of host semaphores (SpecGate).                *)
(***************************************************************************)
\* the hosts whose semaphore the coroutines started so far have asked for
HostsAsked(n) ==
    {SemHost(gtask[t].src) : t \in {u \in 1..n : Requests(gtask[u].src) > 0}}

\* the coroutines holding a permit of the semaphore of host h
HostHolders(h) == {t \in GateTasks : HoldsHostPermit(t, h)}

\* C27: the registry makes the semaphore of a host at the first get_host_sem
\* call for that host and never again: no entry is ever removed, a new entry
\* appears only for the host of the coroutine making its first call and no
\* earlier coroutine asked for that host, and an entry that exists is the
\* semaphore every later call returns: it is never reset, its permits move
\* only with the coroutines that take and give them back; distinct hosts
\* have distinct entries.
C27_HostSemOnce ==
    [][/\ DOMAIN _host_sems \subseteq DOMAIN _host_sems'
       /\ DOMAIN _host_sems' = HostsAsked(started)'
       /\ \A h \in DOMAIN _host_sems' \ DOMAIN _host_sems :
             /\ started' = started + 1
             /\ h = SemHost(gtask[started'].src)
             /\ h \notin HostsAsked(started)
             /\ _host_sems'[h] = MAX_HOST_CONCURRENT - Cardinality(HostHolders(h)')
       /\ \A h \in DOMAIN _host_sems :
             _host_sems[h] - _host_sems'[h]
                 = Cardinality(HostHolders(h)') - Cardinality(HostHolders(h))
       /\ Cardinality({h \in DOMAIN _host_sems : _host_sems'[h] # _host_sems[h]}) <= 1
      ]_vars

\* both permits of host a are out, a third coroutine waits for that same
\* semaphore, and host b has its own semaphore with one permit out
C27_Witness ==
    /\ DOMAIN _host_sems = {"a", "b"}
    /\ _host_sems["a"] = 0
    /\ _host_sems["b"] = 1
    /\ Cardinality(HostHolders("a")) = 2
    /\ \E t \in GateTasks : gtask[t].pc = "host" /\ SemHost(gtask[t].src) = "a"
    /\ started = Len(gtask)

(***************************************************************************)
(* Claims about the --max-zoom override (Spec).                            *)
(***************************************************************************)
\* the max zoom asked for: the override if one is supplied, the source's
\* configured max_zoom if not
MaxZoomAsked ==
    IF max_zoom_override = {} THEN SourceMaxZoom(source_id)
    ELSE CHOOSE m \in max_zoom_override : TRUE

\* C28: when a max-zoom override m >= 0 is supplied to generate_source, 0
\* included, the zoom levels processed are exactly 0 .. m and the maxzoom
\* metadata written is m; the source's configured max_zoom is used only when
\* no override is supplied.
C28_OverrideHonoured ==
    (workflow = "overview" /\ pc \in {"level", "finalize", "done"}) =>
        /\ \A n \in 1..Len(thist) : thist[n].key[1] <= MaxZoomAsked
        /\ pc = "level" => z <= MaxZoomAsked
        /\ pc \in {"finalize", "done"} => z = MaxZoomAsked + 1
        /\ pc = "done" =>
              \A row \in metadata : row[1] = "maxzoom" => row[2] = MaxZoomAsked

\* the same for the overrides other than 0
C28_NonZeroOverride == (max_zoom_override # {0}) => C28_OverrideHonoured

(***************************************************************************)
(* Claims about the delay between attempts (SpecFetch).                    *)
(***************************************************************************)
\* the attempt of coroutine t ended with a timeout or a transport error
FailedCaught(t, o) == Respond(t, o) /\ o.exc \in {"ClientError", "TimeoutError"}

\* C29: when an attempt of fetch_tile fails with a timeout or a transport
\* error and an attempt remains, the coroutine takes the fixed delay before
\* its next attempt starts: it sleeps, issues no request while it sleeps, and
\* only after the sleep goes on to the next attempt; when the last attempt
\* fails that way no delay is taken: the coroutine returns None at once.
C29_BackoffPlacement ==
    [][\A t \in FetchTasks :
          /\ \A o \in Outcomes :
                FailedCaught(t, o) =>
                    IF ftask[t].attempt < retries
                    THEN ftask'[t] = [ftask[t] EXCEPT !.pc = "sleep"]
                    ELSE ftask'[t] = [pc |-> "done", attempt |-> retries, result |-> None]
          /\ (ftask[t].pc = "sleep" /\ ftask'[t] # ftask[t]) =>
                /\ fhist'[t].issued = fhist[t].issued
                /\ \/ ftask'[t] = [pc |-> "acquire", attempt |-> ftask[t].attempt + 1,
                                   result |-> None]
                   \/ ftask'[t].pc = "raised"
          /\ ftask'[t].pc = "sleep" => ftask'[t].attempt < retries
      ]_vars

\* a coroutine in its second delay, after two requests, next to one that
\* returned None right after its third request
C29_Witness ==
    \E t, u \in FetchTasks :
        /\ ftask[t].pc = "sleep" /\ ftask[t].attempt = 1 /\ fhist[t].issued = 2
        /\ ftask[u] = [pc |-> "done", attempt |-> 2, result |-> None]
        /\ fhist[u].issued = 3

(***************************************************************************)
(* Claims about the enumeration of a level's tile keys (Spec).             *)
(***************************************************************************)
\* generate_source lines 442-445 / generate lines 199-200: the range of level zz
RangeOfLevel(zz) ==
    IF workflow = "overview" THEN TileRange(WMS_SOURCES[source_id].bounds, zz)
    ELSE [x_min |-> 0, x_max |-> 2^zz - 1, y_min |-> 0, y_max |-> 2^zz - 1]

\* key b follows key a in the order of the loops: a later level, or on the
\* same level a later row, or in the same row a later column
RowMajor(a, b) ==
    \/ a[1] < b[1]
    \/ a[1] = b[1] /\ a[3] < b[3]
    \/ a[1] = b[1] /\ a[3] = b[3] /\ a[2] < b[2]

\* C30: every tile key of a zoom level's range is fetched and accounted for
\* exactly once: the keys dealt with come in row-major order (so none twice)
\* and lie in the range of their level, the batches flushed so far cover the
\* level's enumeration up to the batch boundary with no gap, and when the run
\* has ended every key of every level of the run has been counted exactly
\* once (none for a level whose range is empty).
C30_EveryKeyOnce ==
    pc # "start" =>
        /\ \A n \in 1..Len(thist) :
              LET k == thist[n].key
                  r == RangeOfLevel(k[1])
              IN /\ k[1] \in FirstLevel..max_zoom
                 /\ k[2] \in r.x_min..r.x_max /\ k[3] \in r.y_min..r.y_max
                 /\ n > 1 => RowMajor(thist[n - 1].key, k)
                 /\ thist[n].counted \in {"saved", "skipped"}
        /\ pc = "level" =>
              Len(thist) = Len(KeysFrom(FirstLevel, z - 1)) + level_done
        /\ pc \in {"done", "failed"} =>
              \A zz \in FirstLevel..max_zoom :
                 LET r == RangeOfLevel(zz)
                 IN \A x \in r.x_min..r.x_max, y \in r.y_min..r.y_max :
                       Cardinality({n \in 1..Len(thist) : thist[n].key = <<zz, x, y>>}) = 1
        /\ saved + skipped = Len(thist)

\* the same on the runs in which no fetch raised
C30_OnGoodRuns == (pc # "failed") => C30_EveryKeyOnce

(***************************************************************************)
(* Claims about the shape of the batches (SpecDeep).                       *)
(***************************************************************************)
\* the history entries a step of the run adds: the tile keys of the batch it
\* handed to asyncio.gather (those ahead of the raising one if it raised)
AddedBy(before, after) == SubSeq(after, Len(before) + 1, Len(after))

\* C31: every batch handed to the fetch fan-out is non-empty, holds at most
\* 32 tiles in the overview workflow and at most min(64, 4^z) tiles in the
\* multi-layer workflow, holds tiles of one zoom level only, and only the
\* last batch of a zoom level may be smaller than the batch size: a step that
\* deals with no tile key is the end of a level with nothing pending.
C31_BatchShape ==
    [][pc = "level" =>
          LET new == AddedBy(thist, thist')
              size == IF workflow = "overview" THEN 32 ELSE min(64, 4^z)
          IN /\ Len(thist') >= Len(thist)
             /\ SubSeq(thist', 1, Len(thist)) = thist
             /\ Len(new) <= size
             /\ \A n \in 1..Len(new) : new[n].key[1] = z
             /\ pc' # "failed" =>
                   /\ z' = z => Len(new) = size
                   /\ Len(new) < size => z' = z + 1 /\ level_done' = 0
                   /\ Len(new) = 0 =>
                         /\ level_done = Len(LevelKeys)
                         /\ tiles' = tiles /\ saved' = saved /\ skipped' = skipped
      ]_vars

\* the overview run has flushed two full batches of its last level after the
\* smaller single batches of levels 0 to 2 and the two batches of level 3
C31_Witness ==
    /\ workflow = "overview" /\ pc = "level"
    /\ z = DeepZoom /\ level_done = 2 * BATCH_OVERVIEW
    /\ Len(thist) = 1 + 4 + 16 + 64 + 2 * BATCH_OVERVIEW
    /\ Len(LevelKeys) = 256

(***************************************************************************)
(* Claims about the counters saved and skipped (Spec).                     *)
(***************************************************************************)
\* the history entries the loop over zip(batch, results) has counted as c
Counted(h, c) == Cardinality({n \in 1..Len(h) : h[n].counted = c})

\* C32: each tile the loop over zip(batch, results) processes raises exactly
\* one of saved and skipped by 1 and the counters never decrease; after every
\* batch saved + skipped is the number of tile keys processed so far; when
\* the run is done saved + skipped is the number of tile keys enumerated and
\* saved is the number of rows of table tiles.
C32_CounterAccounting ==
    /\ [](pc # "start" =>
            /\ saved = Counted(thist, "saved")
            /\ skipped = Counted(thist, "skipped")
            /\ pc = "done" =>
                  /\ saved + skipped = Len(KeysFrom(FirstLevel, max_zoom))
                  /\ saved = Len(tiles) /\ saved = Len(disk.tiles))
    /\ [][pc = "level" =>
             LET new == SubSeq(thist', Len(thist) + 1, Len(thist'))
                 done == {n \in 1..Len(new) : new[n].counted # "no"}
             IN /\ saved' >= saved /\ skipped' >= skipped
                /\ (saved' - saved) + (skipped' - skipped) = Cardinality(done)
                /\ saved' - saved = Cardinality({n \in done : new[n].counted = "saved"})
                /\ Len(tiles') - Len(tiles) = saved' - saved
       ]_vars

\* a finished run that stored some tiles and skipped others, over more than
\* one batch
C32_Witness ==
    /\ pc = "done" /\ saved > 0 /\ skipped > 0
    /\ saved + skipped > BATCH_OVERVIEW
    /\ saved = Len(disk.tiles)
    /\ workflow = "overview"

(***************************************************************************)
(* generate_all step by step (SpecBulkPipe).  asyncio.gather without       *)
(* return_exceptions raises at the first exception and does not cancel the *)
(* other coroutines of the batch; generate_all catches the exception and   *)
(* goes on with the next source while they are still scheduled.            *)
(***************************************************************************)
BulkPipeZoom == 1      \* --max-zoom of the runs followed step by step
BulkPipeSources == 2   \* sources of WMS_SOURCES followed step by step, from the first

\* the coroutines of the gather being awaited (or of the one that raised)
CurrentTasks == {t \in FetchTasks : t > Len(ftask) - Len(inflight) * PerTile}

\* coroutines of an earlier generate_source that have not returned yet
Orphans == {t \in FetchTasks \ CurrentTasks : ftask[t].pc \notin {"done", "raised"}}

\* free permits of the semaphore of the run that left the orphans of batch b
\* behind: nobody else holds a permit of it
OrphanPermits(b) ==
    concurrency - Cardinality({u \in Orphans : fhist[u].bno = b /\ Holding(u)})

\* an orphan goes on in fetch_tile, on the semaphore of its own run
OrphanAcquire(t) ==
    /\ t \in Orphans /\ ftask[t].pc = "acquire"
    /\ CanAcquire(OrphanPermits(fhist[t].bno))
    /\ ftask' = [ftask EXCEPT ![t].pc = "request"]
    /\ fhist' = [fhist EXCEPT ![t].issued = @ + 1]
    /\ UNCHANGED <<concurrency, semaphore, arrival, gateVars, runVars, storeVars>>

\* its session is closed by then (the async with block of line 438 was
\* left); what the attempt ends with is up to the HTTP client
OrphanRespond(t, o) ==
    /\ t \in Orphans /\ ftask[t].pc = "request"
    /\ LET a == ftask[t].attempt
           how == AfterAttempt(a, o)
       IN ftask' = [ftask EXCEPT ![t] =
                       CASE how = "return" -> [pc |-> "done", attempt |-> a, result |-> o.body]
                         [] how = "sleep" -> [ftask[t] EXCEPT !.pc = "sleep"]
                         [] how = "next" -> LoopOn(t, a)
                         [] how = "raise" -> [ftask[t] EXCEPT !.pc = "raised"]]
    /\ UNCHANGED <<concurrency, semaphore, fhist, arrival, gateVars, runVars, storeVars>>

OrphanWake(t) ==
    /\ t \in Orphans /\ ftask[t].pc = "sleep"
    /\ ftask' = [ftask EXCEPT ![t] = LoopOn(t, ftask[t].attempt)]
    /\ UNCHANGED <<concurrency, semaphore, fhist, arrival, gateVars, runVars, storeVars>>

\* generate_all lines 509-514 when the run was followed step by step: the
\* except clause, the next generate_source with its own output path and its
\* own asyncio.Semaphore(concurrency) (line 432)
PipeNextSource ==
    /\ bulk /\ pc \in {"done", "failed"}
    /\ LET n == Len(attempts) + 1
       IN /\ attempts' = Attempted(attempts)
          /\ IF pc = "failed" /\ ~IsException("Other")
             THEN /\ pc' = "raised"
                  /\ UNCHANGED <<source_id, server, disk, path_before, thist, semaphore>>
             ELSE IF n < BulkPipeSources
             THEN /\ pc' = "start"
                  /\ source_id' = SourceOrder[n + 1]
                  /\ server' \in BulkServers
                  /\ disk' \in FoundAt(attempts', BulkPath(source_id'), {NoFile})
                  /\ path_before' = disk'
                  /\ thist' = << >>
                  /\ semaphore' = concurrency
             ELSE /\ pc' = "returned"
                  /\ UNCHANGED <<source_id, server, disk, path_before, thist, semaphore>>
    /\ inflight' = << >>
    /\ UNCHANGED <<unitVars, tile_bytes, layer_list, images, png_data, bulk, workflow,
                   max_zoom_override, min_zoom, max_zoom, z, level_done, saved, skipped>>
    /\ UNCHANGED <<tiles, metadata, log, concurrency, ftask, fhist, arrival, gateVars>>

\* every level of these runs ends with a pending batch (1 or 2 tile keys), so
\* the end of a level is part of PipeCollect
RunInitBulkPipe ==
    /\ RunInitBulk
    /\ max_zoom_override = {BulkPipeZoom}
    /\ disk = NoFile
    /\ concurrency \in 1..MaxConcurrency
    /\ semaphore = concurrency
    /\ ftask = << >>
    /\ fhist = << >>
    /\ arrival = << >>

NextBulkPipe ==
    \/ OverviewStart
    \/ PipeGather
    \/ \E t \in CurrentTasks : Acquire(t)
    \/ \E t \in CurrentTasks : PipeRespond(t)
    \/ \E t \in CurrentTasks : Wake(t)
    \/ \E t \in FetchTasks : OrphanAcquire(t)
    \/ \E t \in FetchTasks, o \in Outcomes : OrphanRespond(t, o)
    \/ \E t \in FetchTasks : OrphanWake(t)
    \/ PipeCollect
    \/ PipeFail
    \/ OverviewFinalize
    \/ PipeNextSource

InitBulkPipe == RunInitBulkPipe /\ GateIdle
SpecBulkPipe == InitBulkPipe /\ [][NextBulkPipe]_vars

\* a fetch_tile coroutine that has neither returned nor raised
InFlight(t) == ftask[t].pc \notin {"done", "raised"}

\* C33: the store has a single writer that never overlaps with fetching:
\* whenever the orchestrator upserts a tile or commits (the loop over
\* zip(batch, results), the commit of a level, the final metadata), no
\* fetch_tile coroutine of any batch is in flight, also along runs in which a
\* fetch raises an unexpected exception.
C33_WriterAlone ==
    [][(pc \in {"level", "finalize"} /\ (tiles' # tiles \/ disk' # disk \/ metadata' # metadata))
          => \A t \in FetchTasks : ~InFlight(t)]_vars

(***************************************************************************)
(* Progress.  Every request ends, every sleep ends and a released permit   *)
(* is handed to a coroutine that waits for it: a step that can be taken is *)
(* eventually taken.  The runs are finite, so weak fairness of the         *)
(* next-state relation says as much.                                       *)
(***************************************************************************)
\* overview runs of SpecPipe, whose levels end with a pending batch: the
\* coroutines of a batch queue for 1 or 2 permits; the server answers at
\* once, refuses, or makes the client raise
InitLive == InitPipe /\ workflow = "overview" /\ server \in BulkServers
NextLive ==
    \/ OverviewStart
    \/ PipeGather
    \/ \E t \in FetchTasks : Acquire(t)
    \/ \E t \in FetchTasks : PipeRespond(t)
    \/ \E t \in FetchTasks : Wake(t)
    \/ \E t \in FetchTasks : Cancel(t)
    \/ PipeCollect
    \/ PipeFail
    \/ OverviewFinalize
FairPipe == InitLive /\ [][NextLive]_vars /\ WF_vars(NextLive)
FairGate == InitGate /\ [][NextGate]_vars /\ WF_vars(NextGate)

\* C34: every fetch_tile coroutine eventually obtains its permit and
\* returns, every batch settles and the run reaches Done, also with more
\* coroutines queued than the concurrency limit.
C34_Progress ==
    <>[](/\ pc = "done"
         /\ inflight = << >>
         /\ \A t \in FetchTasks : ftask[t].pc = "done" /\ fhist[t].issued >= 1)

\* what holds instead: the run ends, done or failed, with every coroutine
\* returned, raised or cancelled and every permit back
C34_RunEnds ==
    <>[](/\ pc \in {"done", "failed"}
         /\ \A t \in FetchTasks : ftask[t].pc \in {"done", "raised"}
         /\ semaphore = concurrency)

\* check_sources: the global permit is always taken before the host permit,
\* so the coroutines cannot deadlock on the two semaphores: each of them
\* eventually has held both and is through, and all permits are back
C34_GateProgress ==
    <>[](/\ \A t \in DOMAIN gtask : gtask[t].pc = "done"
         /\ global_sem = MAX_GLOBAL_CONCURRENT
         /\ \A h \in DOMAIN _host_sems : _host_sems[h] = MAX_HOST_CONCURRENT)

(***************************************************************************)
(* Claims about what a run leaves alone (SpecBulk).                        *)
(***************************************************************************)
\* the key columns of a row of table tiles
StoredKey(r) == <<r.zoom_level, r.tile_column, r.tile_row>>

\* table t with its first n rows as they were in table old
KeepsRows(old, t) == Len(t) >= Len(old) /\ SubSeq(t, 1, Len(old)) = old

\* C35: within one run no tile key is upserted more than once: the stored
\* keys (z, x, 2^z - 1 - y) of the tiles counted as saved are pairwise
\* different, so each step of the run leaves the rows written and committed
\* before it as they are; and each run of generate_all writes to a path of
\* its own, so the file an earlier source left is never touched.
C35_RowsUntouched ==
    /\ [](pc \in {"level", "finalize", "done", "failed"} =>
            /\ \A i, j \in 1..Len(thist) :
                  (i # j /\ thist[i].counted = "saved" /\ thist[j].counted = "saved")
                     => StoredKey(TileRow(thist[i].key, None)) # StoredKey(TileRow(thist[j].key, None))
            /\ Cardinality({StoredKey(r) : r \in Rows(tiles)}) = saved
            /\ Len(tiles) = saved
            /\ \A n \in 1..Len(attempts) : attempts[n].path # BulkPath(source_id)
            /\ \A m, n \in 1..Len(attempts) : m # n => attempts[m].path # attempts[n].path)
    /\ [][/\ pc \in {"level", "finalize"} =>
                KeepsRows(tiles, tiles') /\ KeepsRows(disk.tiles, disk'.tiles)
          /\ pc \in {"done", "failed"} =>
                /\ KeepsRows(attempts, attempts')
                /\ attempts'[Len(attempts')].file = disk
                /\ pc' = "start" => path_before' \in OldFiles
       ]_vars

\* the third source is being processed, after a first source that left two
\* or more rows in its file and a second one, and has rows of its own
C35_Witness ==
    /\ Len(attempts) = 2 /\ pc = "level" /\ Len(disk.tiles) >= 2
    /\ Len(attempts[1].file.tiles) >= 2
    /\ attempts[1].path = "pmtiles/crome_2024.mbtiles"
    /\ attempts[2].path = "pmtiles/brp_netherlands.mbtiles"
    /\ BulkPath(source_id) = "pmtiles/esa_worldcover_2021.mbtiles"

(***************************************************************************)
(* Claims about the permit during the delay (SpecFetch).                   *)
(***************************************************************************)
\* the coroutines that await a response or sleep in their backoff
Busy == {t \in FetchTasks : ftask[t].pc \in {"request", "sleep"}}

\* C36: a fetch keeps its permit during the backoff delay: going to sleep
\* returns no permit, the permit goes back only when the sleep is over (or
\* the coroutine is cancelled in it) and the next attempt has to acquire
\* again; so the coroutines awaiting a response or sleeping in backoff are
\* never more than the concurrency limit.
C36_PermitHeldInBackoff ==
    /\ [](Cardinality(Busy) <= concurrency /\ semaphore = concurrency - Cardinality(Busy))
    /\ [][\A t \in FetchTasks :
             /\ (ftask[t].pc = "request" /\ ftask'[t].pc = "sleep") => semaphore' = semaphore
             /\ (ftask[t].pc = "sleep" /\ ftask'[t].pc # "sleep") =>
                   /\ semaphore' = semaphore + 1
                   /\ ftask'[t].pc \in {"acquire", "raised"}
                   /\ ftask'[t].pc = "acquire" => ftask'[t].attempt = ftask[t].attempt + 1
             /\ (ftask[t].pc = "acquire" /\ ftask'[t].pc = "request") =>
                   semaphore > 0 /\ semaphore' = semaphore - 1
       ]_vars

\* every permit is held by a sleeping coroutine while another coroutine, which
\* has sent nothing yet, waits for one
C36_Witness ==
    /\ semaphore = 0
    /\ \A t \in Busy : ftask[t].pc = "sleep"
    /\ Busy # {}
    /\ \E u \in FetchTasks : ftask[u].pc = "acquire" /\ fhist[u].issued = 0

(***************************************************************************)
(* Claims about responses that carry no data (SpecFetch).                  *)
(***************************************************************************)
\* a response, not an exception, that fetch_tile does not return: a status
\* other than 200, or a body of at most 100 bytes
NoDataResponse(o) == o.exc = "none" /\ ~(o.status = 200 /\ o.body.len > 100)

\* C37: a non-200 response and a 200 response with a body of at most 100
\* bytes use up one attempt and are followed by the next attempt with no
\* delay: the permit goes back and the coroutine asks for one again at once
\* (or returns None if that was the last attempt); a coroutine goes to sleep
\* only from an attempt that raised a transport error or a timeout.
C37_NoDelayAfterResponse ==
    [][\A t \in FetchTasks :
          /\ \A o \in Outcomes :
                (Respond(t, o) /\ NoDataResponse(o)) =>
                    /\ ftask'[t].pc # "sleep"
                    /\ semaphore' = semaphore + 1
                    /\ fhist'[t].issued = fhist[t].issued
                    /\ ftask'[t] = IF ftask[t].attempt < retries
                                   THEN [pc |-> "acquire", attempt |-> ftask[t].attempt + 1,
                                         result |-> None]
                                   ELSE [pc |-> "done", attempt |-> retries, result |-> None]
          /\ (ftask[t].pc # "sleep" /\ ftask'[t].pc = "sleep") =>
                \E o \in Outcomes :
                   Respond(t, o) /\ o.exc \in {"ClientError", "TimeoutError"}
      ]_vars

\* a coroutine that returned None right after a third attempt answered
\* without data, next to one that asks for its permit again right after a
\* first attempt answered without data
C37_Witness ==
    \E t, u \in FetchTasks :
        /\ ftask[t] = [pc |-> "done", attempt |-> 2, result |-> None]
        /\ fhist[t].refused /\ fhist[t].issued = 3
        /\ ftask[u].pc = "acquire" /\ ftask[u].attempt = 1 /\ fhist[u].refused

(***************************************************************************)
(* check_sources.run_all_checks applied to a registry: the tasks it builds *)
(* (one coalesced GetCapabilities fetch per base URL, one individual check *)
(* for every other source, one check per non-WMS entry), what each task    *)
(* returns for the server's reply, and the list gathered from them.  The   *)
(* permits the tasks wait for are the subject of the gate above; here a    *)
(* task's request and the handling of its reply are one step.              *)
(***************************************************************************)
NumChecked == 3        \* sources in the registry
SourceIds == <<"s1", "s2", "s3", "s4">>
HostA == "https://a.example/wms"
HostB == "https://b.example/wms"
YearRegex == "crop_([0-9]+)"
OpenRegex == "crop_("          \* re.compile raises re.error: missing ), unterminated subpattern

\* the entries src of registry["sources"] that are tried
CheckEntries ==
    { [year_discovery |-> "getcapabilities_regex", wms_base_url |-> HostA,
       layer_regex |-> YearRegex, probe_url_template |-> ""],
      [year_discovery |-> "getcapabilities_regex", wms_base_url |-> HostA,
       layer_regex |-> OpenRegex, probe_url_template |-> ""],
      [year_discovery |-> "getcapabilities_regex", wms_base_url |-> HostB,
       layer_regex |-> "", probe_url_template |-> ""],
      [year_discovery |-> "getcapabilities_regex", wms_base_url |-> "",
       layer_regex |-> YearRegex, probe_url_template |-> ""],
      [year_discovery |-> "probe_url", wms_base_url |-> HostA,
       layer_regex |-> "", probe_url_template |-> "https://a.example/{year}/wms"],
      [year_discovery |-> "not_available", wms_base_url |-> "",
       layer_regex |-> "", probe_url_template |-> ""],
      [year_discovery |-> "fixed", wms_base_url |-> HostA,
       layer_regex |-> "", probe_url_template |-> ""] }

\* what the server does with a request of a task
NoReply == [exc |-> "none", status |-> 0]
CheckReplies ==
    { [exc |-> "none", status |-> 200], [exc |-> "none", status |-> 404],
      [exc |-> "TimeoutError", status |-> 0], [exc |-> "ClientError", status |-> 0] }

\* re.compile(regex) returns a pattern
Compiles(regex) == regex # OpenRegex

SourceResult(sid, method, status) == [source_id |-> sid, method |-> method, status |-> status]

\* if source_filter and sid != source_filter: continue
Selected(sid) == source_filter = {} \/ sid \in source_filter

\* line 518: the sources whose fetch is coalesced
Coalesced(e) == e.src.year_discovery = "getcapabilities_regex" /\ e.src.wms_base_url # ""

\* getcap_hosts.setdefault(host, []).append((sid, src))
SetDefaultAppend(hosts, base, e) ==
    IF \E i \in DOMAIN hosts : hosts[i].base = base
    THEN [i \in DOMAIN hosts |->
            IF hosts[i].base = base THEN [hosts[i] EXCEPT !.grp = Append(@, e)] ELSE hosts[i]]
    ELSE Append(hosts, [base |-> base, grp |-> <<e>>])

\* lines 513-520: the groups, in the order in which their base URL first appears
RECURSIVE getcap_hosts(_, _)
getcap_hosts(lst, hosts) ==
    IF lst = << >> THEN hosts
    ELSE LET e == Head(lst)
         IN getcap_hosts(Tail(lst),
                         IF Selected(e.sid) /\ Coalesced(e)
                         THEN SetDefaultAppend(hosts, e.src.wms_base_url, e) ELSE hosts)

Pending(check, base, grp) ==
    [check |-> check, base |-> base, grp |-> grp, pc |-> "pending",
     reply |-> NoReply, outcome |-> None]

\* lines 526-612: one fetch_and_parse coroutine per group
CoalescedTasks(hosts) ==
    [i \in DOMAIN hosts |-> Pending("fetch_and_parse", hosts[i].base, hosts[i].grp)]

\* lines 621-630: the checker chosen for a source that is not coalesced
CheckerOf(e) ==
    CASE e.src.year_discovery = "getcapabilities_regex" -> "check_getcapabilities_source"
      [] e.src.year_discovery = "probe_url" -> "check_probe_url_source"
      [] e.src.year_discovery = "not_available" -> "check_not_available_source"
      [] OTHER -> "check_fixed_source"

\* lines 614-630: the individual checks, in the order of the registry
RECURSIVE IndividualTasks(_, _)
IndividualTasks(lst, coalesced_sids) ==
    IF lst = << >> THEN << >>
    ELSE LET e == Head(lst)
             rest == IndividualTasks(Tail(lst), coalesced_sids)
         IN IF ~Selected(e.sid) \/ e.sid \in coalesced_sids THEN rest
            ELSE <<Pending(CheckerOf(e), e.src.wms_base_url, <<e>>)>> \o rest

\* lines 632-637: the non-WMS checks
RECURSIVE NonWmsTasks(_)
NonWmsTasks(keys) ==
    IF keys = << >> THEN << >>
    ELSE IF ~Selected(Head(keys)) THEN NonWmsTasks(Tail(keys))
    ELSE <<Pending("check_non_wms", "https://c.example/api",
                   <<[sid |-> Head(keys), src |-> None]>>)>> \o NonWmsTasks(Tail(keys))

\* for sid, src in grp: a SourceResult of the given status appended for each
ForAll(grp, status) == [k \in DOMAIN grp |-> SourceResult(grp[k].sid, "GetCap", status)]

\* lines 560-594: the loop over the group after a 200 answer; re.compile
\* raises inside the try block of fetch_and_parse, whose except Exception
\* branch (lines 603-609) appends an ERROR result for every source of the
\* group to what results_local already holds
RECURSIVE ParseLoop(_, _, _)
ParseLoop(grp, k, results_local) ==
    IF k > Len(grp) THEN results_local
    ELSE IF grp[k].src.layer_regex # "" /\ ~Compiles(grp[k].src.layer_regex)
    THEN results_local \o ForAll(grp, "ERROR")
    ELSE ParseLoop(grp, k + 1, Append(results_local, SourceResult(grp[k].sid, "GetCap", "OK")))

AsList(items) == [kind |-> "list", items |-> items]
AsResult(r) == [kind |-> "SourceResult", items |-> <<r>>]
AsException == [kind |-> "Exception", items |-> << >>]

\* lines 530-611
fetch_and_parse(grp, reply) ==
    IF reply.exc = "TimeoutError" THEN AsList(ForAll(grp, "TIMEOUT"))
    ELSE IF reply.exc # "none" THEN AsList(ForAll(grp, "ERROR"))
    ELSE IF reply.status # 200 THEN AsList(ForAll(grp, "ERROR"))
    ELSE AsList(ParseLoop(grp, 1, << >>))

\* lines 189-269: re.compile is called after the try block
check_getcapabilities_source(e, reply) ==
    IF e.src.wms_base_url = "" THEN AsResult(SourceResult(e.sid, "GetCap", "SKIPPED"))
    ELSE IF reply.exc = "TimeoutError" THEN AsResult(SourceResult(e.sid, "GetCap", "TIMEOUT"))
    ELSE IF reply.exc # "none" THEN AsResult(SourceResult(e.sid, "GetCap", "ERROR"))
    ELSE IF reply.status # 200 THEN AsResult(SourceResult(e.sid, "GetCap", "ERROR"))
    ELSE IF e.src.layer_regex = "" THEN AsResult(SourceResult(e.sid, "GetCap", "OK"))
    ELSE IF ~Compiles(e.src.layer_regex) THEN AsException
    ELSE AsResult(SourceResult(e.sid, "GetCap", "OK"))

\* lines 272-332: every probed year gets the same reply; a year is
\* discovered when the answer is 200 with a capabilities document
check_probe_url_source(e, reply) ==
    IF e.src.probe_url_template = "" THEN AsResult(SourceResult(e.sid, "Probe", "SKIPPED"))
    ELSE IF reply.exc = "none" /\ reply.status = 200
    THEN AsResult(SourceResult(e.sid, "Probe", "OK"))
    ELSE AsResult(SourceResult(e.sid, "Probe", "ERROR"))

\* lines 335-382
check_fixed_source(e, reply) ==
    IF e.src.wms_base_url = "" THEN AsResult(SourceResult(e.sid, "Fixed", "SKIPPED"))
    ELSE IF reply.exc = "TimeoutError" THEN AsResult(SourceResult(e.sid, "Fixed", "TIMEOUT"))
    ELSE IF reply.exc # "none" THEN AsResult(SourceResult(e.sid, "Fixed", "ERROR"))
    ELSE IF reply.status = 200 THEN AsResult(SourceResult(e.sid, "Fixed", "OK"))
    ELSE AsResult(SourceResult(e.sid, "Fixed", "ERROR"))

\* lines 385-390
check_not_available_source(e) == AsResult(SourceResult(e.sid, "N/A", "NOT_AVAILABLE"))

\* lines 393-442, for a head_request entry
check_non_wms(e, reply) ==
    IF reply.exc = "TimeoutError" THEN AsResult(SourceResult(e.sid, "head_request", "TIMEOUT"))
    ELSE IF reply.exc # "none" THEN AsResult(SourceResult(e.sid, "head_request", "ERROR"))
    ELSE IF reply.status = 200 THEN AsResult(SourceResult(e.sid, "head_request", "OK"))
    ELSE AsResult(SourceResult(e.sid, "head_request", "ERROR"))

\* the task sends a request (it does not return SKIPPED or NOT_AVAILABLE first)
MakesRequest(t) ==
    CASE t.check = "fetch_and_parse" -> TRUE
      [] t.check = "check_getcapabilities_source" -> t.base # ""
      [] t.check = "check_probe_url_source" -> t.grp[1].src.probe_url_template # ""
      [] t.check = "check_fixed_source" -> t.base # ""
      [] t.check = "check_not_available_source" -> FALSE
      [] OTHER -> TRUE

\* what the coroutine returns or raises
TaskBody(t, reply) ==
    CASE t.check = "fetch_and_parse" -> fetch_and_parse(t.grp, reply)
      [] t.check = "check_getcapabilities_source" -> check_getcapabilities_source(t.grp[1], reply)
      [] t.check = "check_probe_url_source" -> check_probe_url_source(t.grp[1], reply)
      [] t.check = "check_fixed_source" -> check_fixed_source(t.grp[1], reply)
      [] t.check = "check_not_available_source" -> check_not_available_source(t.grp[1])
      [] OTHER -> check_non_wms(t.grp[1], reply)

\* lines 640-646: lists are extended, results appended, exceptions printed
RECURSIVE Outcomes38(_, _)
Outcomes38(lst, acc) ==
    IF lst = << >> THEN acc
    ELSE LET o == Head(lst).outcome
         IN Outcomes38(Tail(lst),
                       CASE o.kind = "list" -> acc \o o.items
                         [] o.kind = "SourceResult" -> Append(acc, o.items[1])
                         [] OTHER -> acc)

SidsOf(hosts) == UNION {{hosts[i].grp[k].sid : k \in DOMAIN hosts[i].grp} : i \in DOMAIN hosts}

CheckFrame ==
    /\ UNCHANGED <<rangeVars, tripVars, urlVars>>
    /\ UNCHANGED <<workflow, source_id, max_zoom_override, min_zoom, max_zoom, server,
                   pc, z, level_done, inflight, saved, skipped, bulk, attempts, thist,
                   layer_list, images, png_data, tile_bytes, path_before>>
    /\ UNCHANGED <<storeVars, fetchVars, gateVars>>

CheckInit ==
    /\ sources \in {[i \in 1..NumChecked |-> [sid |-> SourceIds[i], src |-> f[i]]] :
                      f \in [1..NumChecked -> CheckEntries]}
    /\ source_filter \in {{}, {"s1"}, {"s2"}, {"fao_api"}}
    /\ non_wms \in {<< >>, <<"fao_api">>}
    /\ check_pc = "start"
    /\ tasks = << >> /\ requests = << >> /\ checked = << >>

\* lines 509-637: the list tasks
BuildTasks ==
    /\ check_pc = "start"
    /\ LET hosts == getcap_hosts(sources, << >>)
       IN tasks' = CoalescedTasks(hosts) \o IndividualTasks(sources, SidsOf(hosts))
                     \o NonWmsTasks(non_wms)
    /\ check_pc' = "gather"
    /\ UNCHANGED <<sources, source_filter, non_wms, requests, checked>>
    /\ CheckFrame

\* one coroutine of the gather runs to its end
RunTask(i, reply) ==
    /\ check_pc = "gather" /\ i \in DOMAIN tasks /\ tasks[i].pc = "pending"
    /\ reply \in (IF MakesRequest(tasks[i]) THEN CheckReplies ELSE {NoReply})
    /\ tasks' = [tasks EXCEPT ![i] = [@ EXCEPT !.pc = "done", !.reply = reply,
                                                !.outcome = TaskBody(tasks[i], reply)]]
    /\ requests' = IF MakesRequest(tasks[i])
                   THEN Append(requests, [task |-> i, base |-> tasks[i].base])
                   ELSE requests
    /\ UNCHANGED <<sources, source_filter, non_wms, check_pc, checked>>
    /\ CheckFrame

\* lines 638-646: outcomes = await asyncio.gather(*tasks, return_exceptions=True)
Gathered ==
    /\ check_pc = "gather" /\ \A i \in DOMAIN tasks : tasks[i].pc = "done"
    /\ checked' = Outcomes38(tasks, << >>)
    /\ check_pc' = "done"
    /\ UNCHANGED <<sources, source_filter, non_wms, tasks, requests>>
    /\ CheckFrame

NextChecks ==
    \/ BuildTasks
    \/ \E i \in 1..(NumChecked + 1), reply \in CheckReplies \cup {NoReply} : RunTask(i, reply)
    \/ Gathered

InitChecks == CheckInit /\ RangeIdle /\ TripIdle /\ UrlIdle /\ RunIdle /\ StoreIdle /\ FetchIdle /\ GateIdle
SpecChecks == InitChecks /\ [][NextChecks]_vars

\* the tasks that check the source sid
TasksOf(sid) ==
    {j \in DOMAIN tasks : tasks[j].check # "check_non_wms"
                          /\ \E k \in DOMAIN tasks[j].grp : tasks[j].grp[k].sid = sid}

ResultsOf(sid) == {k \in DOMAIN checked : checked[k].source_id = sid}

\* every selected source is checked by exactly one task
OneTaskEach ==
    check_pc \in {"gather", "done"} =>
        \A i \in DOMAIN sources :
            Selected(sources[i].sid) => Cardinality(TasksOf(sources[i].sid)) = 1

\* the GetCapabilities sources of one base URL share one task and one request
OneRequestPerHost ==
    check_pc = "done" =>
        \A i, j \in DOMAIN sources :
            (/\ Selected(sources[i].sid) /\ Selected(sources[j].sid)
             /\ Coalesced(sources[i]) /\ Coalesced(sources[j])
             /\ sources[i].src.wms_base_url = sources[j].src.wms_base_url)
            => /\ TasksOf(sources[i].sid) = TasksOf(sources[j].sid)
               /\ \A t \in TasksOf(sources[i].sid) :
                     Cardinality({k \in DOMAIN requests : requests[k].task = t}) = 1

\* a timeout or an HTTP error is a result with status TIMEOUT or ERROR
FailuresAreResults ==
    \A j \in DOMAIN tasks :
        (tasks[j].pc = "done" /\ (tasks[j].reply.exc = "TimeoutError" \/ tasks[j].reply.status = 404))
        => /\ tasks[j].outcome.kind # "Exception"
           /\ tasks[j].outcome.items # << >>
           /\ \A k \in DOMAIN tasks[j].outcome.items :
                 tasks[j].outcome.items[k].status \in {"TIMEOUT", "ERROR"}

\* a selected source whose task did not raise has exactly one result
OneResultEach ==
    check_pc = "done" =>
        \A i \in DOMAIN sources :
            (/\ Selected(sources[i].sid)
             /\ \A t \in TasksOf(sources[i].sid) : tasks[t].outcome.kind # "Exception")
            => Cardinality(ResultsOf(sources[i].sid)) = 1

\* C38: in run_all_checks every selected source is checked by exactly one task,
\* the sources sharing one GetCapabilities base URL are served by one request,
\* every selected source whose task does not raise contributes exactly one
\* SourceResult, and timeouts and HTTP errors become TIMEOUT or ERROR results.
C38_OneResultPerSource ==
    OneTaskEach /\ OneRequestPerHost /\ FailuresAreResults /\ OneResultEach

\* what the code does keep: one task per source, one request per base URL,
\* failures reported as results, and at least one result for every selected
\* source whose task did not raise
C38_TasksAndRequests ==
    /\ OneTaskEach /\ OneRequestPerHost /\ FailuresAreResults
    /\ check_pc = "done" =>
         \A i \in DOMAIN sources :
            (/\ Selected(sources[i].sid)
             /\ \A t \in TasksOf(sources[i].sid) : tasks[t].outcome.kind # "Exception")
            => Cardinality(ResultsOf(sources[i].sid)) >= 1

(***************************************************************************)
(* The end of a zoom level in the multi-layer workflow (SpecDeep).         *)
(***************************************************************************)
\* C39: in the multi-layer workflow nothing is pending when the enumeration
\* of a zoom level ends: the tile keys flushed inside the loops are always a
\* whole number of batches of min(64, 4^z) keys, the step that ends the level
\* finds level_done equal to the level's 4^z tile keys, and the final-batch
\* branch fetches, stores, counts and commits nothing.
C39_NoFinalBatch ==
    /\ [](workflow = "multi" /\ pc = "level" =>
             /\ level_done % min(64, 4^z) = 0
             /\ level_done <= 4^z)
    /\ [][(workflow = "multi" /\ pc = "level" /\ z' # z) =>
             /\ level_done = 4^z
             /\ level_done = Len(LevelKeys)
             /\ thist' = thist
             /\ tiles' = tiles /\ saved' = saved /\ skipped' = skipped
             /\ disk' = disk
             /\ pc' # "failed"
         ]_vars

\* the run from zoom 0 has ended its last level, of 256 tile keys in four
\* batches of 64, after the levels of 1, 4, 16 and 64 keys
C39_Witness ==
    /\ workflow = "multi" /\ pc = "finalize"
    /\ min_zoom = 0 /\ z = DeepZoom + 1
    /\ Len(thist) = 1 + 4 + 16 + 64 + 4 * BATCH_MULTI
    /\ saved + skipped = Len(thist)

====
